---- MODULE Spec2Model ----
(***************************************************************************)
(* Model of the job-scraper service: the fetch orchestrator get_jobs       *)
(* (app/scrape_jobs.py) running as concurrent request tasks on top of the  *)
(* process-wide ProxyManager (app/proxy_manager.py).                       *)
(*                                                                         *)
(* Text values (exception messages, response messages) are sequences of    *)
(* one-character strings so that lower-casing, substring search and        *)
(* f-string embedding are computed rather than assumed.                    *)
(***************************************************************************)
EXTENDS Integers, Sequences, FiniteSets, TLC

\* ------------------------------------------------------------------ bounds
TickStep == 200        \* seconds by which the clock advances in one step
MaxTicks == 2          \* number of clock steps explored
MaxRecords == 1        \* records in a scraped batch
MaxShort == 3              \* candidates on a short list of the validator
LongList == 52             \* candidates on the long list of the validator
MaxLines == 2          \* lines in the text a proxy source sends
PoolTickStep == 150    \* seconds of one clock step in the pool's specification
MaxPoolTicks == 3      \* clock steps explored in the pool's specification

\* --------------------------------------------------------------- constants
update_interval == 300     \* ProxyManager.update_interval
StartTime == 1000          \* time.time() when the process starts (epoch > TTL)
TestFirst == 50            \* proxies[:50]
EnoughWorking == 10        \* len(working_proxies) >= 10
DefaultMaxWorkers == 20    \* max_workers: int = 20
DefaultUpdateInterval == 300   \* os.getenv('PROXY_UPDATE_INTERVAL', '300')

\* request tasks: one serves GET /jobs, one POST /admin/refresh-proxies
JobTasks == {1}
AdminTasks == {2}
Tasks == JobTasks \cup AdminTasks

\* the tasks that serve GET /health/proxies, and the tasks of the pool's own
\* specification
HealthTasks == {3, 4}

\* the tasks that serve GET /health/scraping
ScrapingTasks == {7}
PoolTasks == AdminTasks \cup HealthTasks

\* ------------------------------------------------------------ Python values
PyNone == [isNone |-> TRUE]
PySome(v) == [isNone |-> FALSE, v |-> v]
\* truth value of an Optional[List]: None and [] are falsy
Truthy(x) == (~x.isNone) /\ Len(x.v) > 0
\* len(x) if x else 0
LenOrZero(x) == IF Truthy(x) THEN Len(x.v) ELSE 0

\* ------------------------------------------------------------------- text
UPPER == <<"A","B","C","D","E","F","G","H","I","J","K","L","M","N","O","P","Q","R","S","T","U","V","W","X","Y","Z">>
LOWER == <<"a","b","c","d","e","f","g","h","i","j","k","l","m","n","o","p","q","r","s","t","u","v","w","x","y","z">>

LowerChar(c) ==
    IF \E i \in 1..Len(UPPER) : UPPER[i] = c
    THEN LOWER[CHOOSE i \in 1..Len(UPPER) : UPPER[i] = c]
    ELSE c

\* str.lower()
Lower(s) == [i \in 1..Len(s) |-> LowerChar(s[i])]

\* needle in hay
Contains(needle, hay) ==
    \E i \in 0..(Len(hay) - Len(needle)) :
        SubSeq(hay, i + 1, i + Len(needle)) = needle

NEEDLE == <<"p","r","o","x","y">>

\* "proxy" in str(e).lower()
IsProxyErrorNoLower(text) == Contains(NEEDLE, text)
IsProxyError(text) == Contains(NEEDLE, Lower(text))

MSG_PROXY_UNAVAILABLE == <<"N","o"," ","w","o","r","k","i","n","g"," ","p","r","o","x","i","e","s"," ","a","v","a","i","l","a","b","l","e"," ","a","n","d"," ","f","a","l","l","b","a","c","k"," ","i","s"," ","d","i","s","a","b","l","e","d">>
MSG_PROXY_FETCH_FAILED == <<"F","a","i","l","e","d"," ","t","o"," ","f","e","t","c","h"," ","p","r","o","x","i","e","s"," ","a","n","d"," ","f","a","l","l","b","a","c","k"," ","i","s"," ","d","i","s","a","b","l","e","d",":"," ">>
MSG_BOTH_FAILED == <<"B","o","t","h"," ","p","r","o","x","y"," ","a","n","d"," ","f","a","l","l","b","a","c","k"," ","s","c","r","a","p","i","n","g"," ","f","a","i","l","e","d">>
MSG_SCRAPING_FAILED == <<"S","c","r","a","p","i","n","g"," ","f","a","i","l","e","d",":"," ">>
MSG_SCRAPING_FAILED_NO_FALLBACK == <<"S","c","r","a","p","i","n","g"," ","f","a","i","l","e","d"," ","a","n","d"," ","f","a","l","l","b","a","c","k"," ","i","s"," ","d","i","s","a","b","l","e","d",":"," ">>

\* exception texts the collaborators are observed with
TextBadPROXY == <<"b","a","d"," ","P","R","O","X","Y">>
TextNoProxies == <<"n","o"," ","p","r","o","x","i","e","s">>
ErrorTexts == {TextBadPROXY, TextNoProxies}


\* ----------------------------------------------------------- request data
\* JobSearchParams instances the requests are drawn from (validated by the
\* API layer: distance >= 0, 1 <= results_wanted <= 100, hours_old >= 1)
JobSearchParams(search_term, job_type) ==
    [search_term |-> search_term, location |-> "New York", distance |-> 0,
     job_type |-> job_type, is_remote |-> FALSE, offset |-> 0,
     results_wanted |-> 10, hours_old |-> 24]

ParamsSet == {JobSearchParams("python developer", PyNone),
              JobSearchParams("data engineer", PySome("fulltime"))}

\* scrape_kwargs: job_type is a key only when params.job_type is not None
ScrapeKwargsNoProxies(params, prx) ==
    LET base == [site_name |-> "linkedin", search_term |-> params.search_term,
                 location |-> params.location, distance |-> params.distance,
                 results_wanted |-> params.results_wanted,
                 hours_old |-> params.hours_old, offset |-> params.offset,
                 is_remote |-> params.is_remote,
                 description_format |-> "markdown",
                 linkedin_fetch_description |-> TRUE, proxies |-> PyNone]
    IN IF params.job_type.isNone THEN base
       ELSE [k \in DOMAIN base \cup {"job_type"} |->
                IF k = "job_type" THEN params.job_type.v ELSE base[k]]
ScrapeKwargs(params, prx) ==
    LET base == [site_name |-> "linkedin", search_term |-> params.search_term,
                 location |-> params.location, distance |-> params.distance,
                 results_wanted |-> params.results_wanted,
                 hours_old |-> params.hours_old, offset |-> params.offset,
                 is_remote |-> params.is_remote,
                 description_format |-> "markdown",
                 linkedin_fetch_description |-> TRUE, proxies |-> prx]
    IN IF params.job_type.isNone THEN base
       ELSE [k \in DOMAIN base \cup {"job_type"} |->
                IF k = "job_type" THEN params.job_type.v ELSE base[k]]

\* search_params echoed in the metadata
SearchParamsEcho(params) ==
    [search_term |-> params.search_term, location |-> params.location,
     results_wanted |-> params.results_wanted]

\* ------------------------------------------------------- scraped records
\* A raw cell of the DataFrame: a string, a missing value (NaN/None), or a
\* value of a type the Job model rejects.
CellStr == [t |-> "str", v |-> "Python Developer"]
CellNaN == [t |-> "nan"]
CellNull == [t |-> "null"]
CellBad == [t |-> "dict"]
RawCells == {CellStr, CellNaN, CellBad}
RawRecords == [title : RawCells]

SeqsUpTo(S, n) == UNION {[1..k -> S] : k \in 0..n}
Batches == SeqsUpTo(RawRecords, MaxRecords)

\* jobs_df.astype(object).where(pd.notnull(jobs_df), None)
NormalizeCell(c) == IF c.t = "nan" THEN CellNull ELSE c
Normalize(batch) ==
    [i \in 1..Len(batch) |-> [title |-> NormalizeCell(batch[i].title)]]

\* Job(**job_data) succeeds: every field is a str or None
JobValid(rec) == rec.title.t \in {"str", "null"}
AllValid(batch) == \A i \in 1..Len(batch) : JobValid(Normalize(batch)[i])
Job(rec) == [title |-> rec.title]
ValidatedJobs(batch) == [i \in 1..Len(batch) |-> Job(Normalize(batch)[i])]

\* What scrape_jobs(**scrape_kwargs) does: it returns a DataFrame or raises
ScrapeReturns ==
    {[kind |-> "data", batch |-> b, text |-> <<>>] : b \in Batches}
    \cup {[kind |-> "raise", batch |-> <<>>, text |-> t] : t \in ErrorTexts}

\* -------------------------------------------------------------- responses
ScrapingError(error_type, message, details, suggested_actions) ==
    [error_type |-> error_type, message |-> message, details |-> details,
     suggested_actions |-> suggested_actions]

JobSearchResponse(success, jobs, error, metadata) ==
    [success |-> success, jobs |-> jobs, error |-> error,
     metadata |-> metadata]

NoResponse == [pending |-> TRUE]

\* outcome of a get_proxy_list call as its caller sees it
NoReturn == [raised |-> FALSE, value |-> PyNone, text |-> <<>>]
Returned(v) == [raised |-> FALSE, value |-> v, text |-> <<>>]
Raised(t) == [raised |-> TRUE, value |-> PyNone, text |-> t]


\* ------------------------------------------------------ candidate proxies
Candidates == <<"http://proxy1:8080", "http://proxy2:8080">>

\* lists _fetch_free_proxies returns (no source answered, or some candidates)
FetchResults == {SubSeq(Candidates, 1, k) : k \in 0..Len(Candidates)}

\* ------------------------------------------------------ _fetch_free_proxies
\* the answer of requests.get(url, timeout=10): an exception, or a status
\* code and a text
NoSourceResponse == [raised |-> FALSE, status_code |-> 0, text |-> <<>>]
SourceRaised == [raised |-> TRUE, status_code |-> 0, text |-> <<>>]
SourceAnswer(code, text) == [raised |-> FALSE, status_code |-> code, text |-> text]

NEWLINE == "\n"
WHITESPACE == {" ", "\t", NEWLINE}

\* str.strip()
RECURSIVE LStrip(_)
LStrip(s) == IF s # <<>> /\ Head(s) \in WHITESPACE THEN LStrip(Tail(s)) ELSE s

RECURSIVE RStrip(_)
RStrip(s) ==
    IF s # <<>> /\ s[Len(s)] \in WHITESPACE
    THEN RStrip(SubSeq(s, 1, Len(s) - 1))
    ELSE s

Strip(s) == RStrip(LStrip(s))

\* str.split('\n')
RECURSIVE Split(_)
Split(s) ==
    IF \E i \in 1..Len(s) : s[i] = NEWLINE
    THEN LET i == CHOOSE k \in 1..Len(s) :
                     s[k] = NEWLINE /\ \A m \in 1..(k-1) : s[m] # NEWLINE
         IN  <<SubSeq(s, 1, i - 1)>> \o Split(SubSeq(s, i + 1, Len(s)))
    ELSE <<s>>

\* str.startswith(prefix)
StartsWith(s, prefix) ==
    Len(s) >= Len(prefix) /\ SubSeq(s, 1, Len(prefix)) = prefix

HTTP == <<"h","t","t","p",":","/","/">>
HTTPS == <<"h","t","t","p","s",":","/","/">>
SOCKS4 == <<"s","o","c","k","s","4",":","/","/">>
SOCKS5 == <<"s","o","c","k","s","5",":","/","/">>

\* proxy.startswith(('socks4://', 'socks5://', 'https://'))
IsSkippedProtocol(proxy) ==
    \E prefix \in {SOCKS4, SOCKS5, HTTPS} : StartsWith(proxy, prefix)

\* the loop over the lines of one source: formatted_proxies
RECURSIVE FormattedProxies(_)
FormattedProxies(lines) ==
    IF lines = <<>> THEN <<>>
    ELSE LET proxy == Strip(Head(lines))
             rest == FormattedProxies(Tail(lines))
         IN  IF proxy = <<>> THEN rest
             ELSE IF StartsWith(proxy, HTTP) THEN <<proxy>> \o rest
             ELSE IF IsSkippedProtocol(proxy) THEN rest
             ELSE IF Contains(<<":">>, proxy) THEN <<HTTP \o proxy>> \o rest
             ELSE rest

\* all_proxies after the loop over proxy_urls (one url)
AllProxiesIgnoringStatus(r) == FormattedProxies(Split(Strip(r.text)))

AllProxies(r) ==
    IF r.raised THEN <<>>
    ELSE IF r.status_code = 200
         THEN FormattedProxies(Split(Strip(r.text)))
         ELSE <<>>

\* set(all_proxies)
_fetch_free_proxies(r) == {AllProxies(r)[i] : i \in 1..Len(AllProxies(r))}

\* list(a set): the elements once each, in an order the caller cannot choose
ListsOf(S) ==
    {f \in [1..Cardinality(S) -> S] :
        \A i, j \in 1..Cardinality(S) : f[i] = f[j] => i = j}

\* the lines a source is observed to send
LineHttp == <<"h","t","t","p",":","/","/","a",":","1">>
LineBare == <<"a",":","1">>
LinePadded == <<" ","a",":","1","\t">>
LineHttps == <<"h","t","t","p","s",":","/","/","a",":","1">>
LineSocks4 == <<"s","o","c","k","s","4",":","/","/","a",":","1">>
LineSocks5 == <<"s","o","c","k","s","5",":","/","/","a",":","1">>
LineFtp == <<"f","t","p",":","/","/","a",":","1">>
LineBlank == <<>>
LineWord == <<"a">>
SourceLines == {LineHttp, LineBare, LinePadded, LineHttps, LineSocks4,
                LineSocks5, LineFtp, LineBlank, LineWord}

\* the texts of at most MaxLines such lines, with a newline between two lines
RECURSIVE Join(_)
Join(lines) ==
    IF lines = <<>> THEN <<>>
    ELSE IF Len(lines) = 1 THEN lines[1]
    ELSE lines[1] \o <<NEWLINE>> \o Join(Tail(lines))

SourceTexts ==
    {Join(ls) : ls \in UNION {[1..n -> SourceLines] : n \in 0..MaxLines}}

\* the answers of the source: an exception, a failure status, a text
SourceResponses ==
    {SourceRaised}
        \cup {SourceAnswer(code, t) : code \in {200, 404}, t \in SourceTexts}

\* _validate_proxies: the first 50 candidates are probed, working ones are
\* collected in input order, at most 10 of them
\* a loop that never has enough
NeverEnough(found) == FALSE

\* if len(working_proxies) >= 10: break
Enough(found) == Len(found) >= EnoughWorking

RECURSIVE Collect(_, _, _)
Collect(cands, works, acc) ==
    IF cands = <<>> \/ Enough(acc) THEN acc
    ELSE Collect(Tail(cands), works,
                 IF Head(cands) \in works THEN Append(acc, Head(cands))
                 ELSE acc)

\* a slice that keeps the whole list
WholeList(s, n) == s

\* s[:n]
FirstN(s, n) == SubSeq(s, 1, IF Len(s) < n THEN Len(s) ELSE n)

_validate_proxies(cands, works) == Collect(FirstN(cands, TestFirst), works, <<>>)

\* ------------------------------------------------------------------ state
VARIABLES
    USE_PROXIES,             \* settings.USE_PROXIES
    PROXY_FALLBACK_ENABLED,  \* settings.PROXY_FALLBACK_ENABLED
    PROXY_UPDATE_INTERVAL,   \* settings.PROXY_UPDATE_INTERVAL
    working_proxies,         \* proxy_manager.working_proxies
    last_update,             \* proxy_manager.last_update
    lock,                    \* proxy_manager._lock: 0 free, else the holder
    now,                     \* time.time()
    pc,                      \* position of each request task
    params,                  \* get_jobs: params
    proxies,                 \* get_jobs: proxies
    scrape_kwargs,           \* get_jobs: scrape_kwargs
    e,                       \* get_jobs: str(e) of the caught exception
    response,                \* value returned by get_jobs
    current_time,            \* get_proxy_list: current_time
    force_refresh,           \* get_proxy_list: force_refresh
    fresh_proxies,           \* get_proxy_list: fresh_proxies
    ret,                     \* get_proxy_list: value returned / text raised
    scrape_calls,            \* per request: kwargs and outcome of each scrape
    gpl_calls,               \* per request: calls of get_proxy_list
    refreshes,               \* per request: refreshes started by the task
    source_response,         \* _fetch_free_proxies: the answer of the source
    arrived_during,          \* per call: the task refreshing at entry, or 0
    held,                    \* pairs the pool held when a refresh completed
    call_log,                \* the calls that took the lock, in that order
    observe,                 \* the two histories above are being recorded
    offered,                 \* the candidates the source has on offer
    reachable,               \* the proxies through which a probe succeeds
    max_workers,             \* _validate_proxies: max_workers
    work_queue,              \* per call: positions submitted, not yet started
    in_flight,               \* per call: positions whose _test_proxy is running
    finished,                \* per call: positions probed, in completion order
    consumed,                \* per call: results the for loop has taken
    validated,               \* _validate_proxies: working_proxies (the local)
    answers,                 \* _test_proxy: what each test url does, in order
    is_working               \* _test_proxy: the value returned

vars == <<USE_PROXIES, PROXY_FALLBACK_ENABLED, PROXY_UPDATE_INTERVAL,
          working_proxies, last_update,
          lock, now, pc, params, proxies, scrape_kwargs, e, response,
          current_time, force_refresh, fresh_proxies, ret, scrape_calls,
          gpl_calls, refreshes, source_response, arrived_during, held,
          call_log, observe, offered, reachable, max_workers, work_queue,
          in_flight, finished, consumed, validated, answers, is_working>>

settingsVars == <<USE_PROXIES, PROXY_FALLBACK_ENABLED, PROXY_UPDATE_INTERVAL>>
poolVars == <<working_proxies, last_update>>
jobVars == <<params, proxies, scrape_kwargs, e, response, scrape_calls>>
gplVars == <<current_time, force_refresh, fresh_proxies, ret>>
histVars == <<arrived_during, held, call_log>>
scenarioVars == <<offered, reachable, max_workers>>
executorVars == <<work_queue, in_flight, finished, consumed, validated>>
validatorVars == <<scenarioVars, executorVars>>
probeVars == <<answers, is_working>>

\* no validation has run for the tasks T
ExecutorsInit(T) ==
    /\ work_queue = [p \in T |-> <<>>]
    /\ in_flight = [p \in T |-> {}]
    /\ finished = [p \in T |-> <<>>]
    /\ consumed = [p \in T |-> 0]
    /\ validated = [p \in T |-> <<>>]

\* nothing is on offer beyond the lists of FetchResults, the validator has
\* its default pool and no probe has been made
NoScenario ==
    /\ offered = <<>>
    /\ reachable = {}
    /\ max_workers = DefaultMaxWorkers
    /\ answers = <<>>
    /\ is_working = PyNone

Init ==
    /\ USE_PROXIES \in BOOLEAN
    /\ PROXY_FALLBACK_ENABLED \in BOOLEAN
    /\ PROXY_UPDATE_INTERVAL = DefaultUpdateInterval
    /\ working_proxies = <<>>
    /\ last_update = 0
    /\ lock = 0
    /\ now = StartTime
    /\ pc = [p \in Tasks |-> "idle"]
    /\ params = [p \in Tasks |-> PyNone]
    /\ proxies = [p \in Tasks |-> PyNone]
    /\ scrape_kwargs = [p \in Tasks |-> PyNone]
    /\ e = [p \in Tasks |-> <<>>]
    /\ response = [p \in Tasks |-> NoResponse]
    /\ current_time = [p \in Tasks |-> 0]
    /\ force_refresh = [p \in Tasks |-> FALSE]
    /\ fresh_proxies = [p \in Tasks |-> <<>>]
    /\ ret = [p \in Tasks |-> NoReturn]
    /\ scrape_calls = [p \in Tasks |-> <<>>]
    /\ gpl_calls = [p \in Tasks |-> 0]
    /\ refreshes = [p \in Tasks |-> 0]
    /\ source_response = NoSourceResponse
    /\ arrived_during = [p \in Tasks |-> 0]
    /\ held = {<<working_proxies, last_update>>}
    /\ call_log = <<>>
    /\ observe = FALSE
    /\ ExecutorsInit(Tasks)
    /\ NoScenario

\* the clock advances
Tick ==
    /\ now < StartTime + MaxTicks * TickStep
    /\ now' = now + TickStep
    /\ UNCHANGED <<settingsVars, validatorVars, probeVars, observe,
                   source_response, histVars, poolVars,
                   lock, pc, jobVars, gplVars, gpl_calls, refreshes>>


\* ------------------------------------------------- ProxyManager.get_proxy_list
\* an expiry test that already fires at an age of exactly update_interval
ExpiredAtInterval(t) == t - last_update >= update_interval

\* current_time - self.last_update > self.update_interval
Expired(t) == t - last_update > update_interval

\* a refresh condition that always holds
NeedsRefreshAlways(force, t) == TRUE

\* the refresh condition of get_proxy_list
NeedsRefresh(force, t) ==
    \/ force
    \/ Expired(t)
    \/ working_proxies = <<>>

\* the positions of a caller that is refreshing the pool
RefreshPcs == {"gpl_fetch", "gpl_validate", "val_loop", "val_exit",
               "gpl_stamp"}

\* the caller that holds the lock and is refreshing the pool, 0 if none
Refresher ==
    IF \E q \in DOMAIN pc : pc[q] \in RefreshPcs
    THEN CHOOSE q \in DOMAIN pc : pc[q] \in RefreshPcs
    ELSE 0

\* current_time = time.time(), taken before the lock is requested
get_proxy_list_enter(p) ==
    /\ pc[p] = "gpl_enter"
    /\ current_time' = [current_time EXCEPT ![p] = now]
    /\ gpl_calls' = [gpl_calls EXCEPT ![p] = @ + 1]
    /\ pc' = [pc EXCEPT ![p] = "gpl_lock"]
    /\ arrived_during' = [arrived_during EXCEPT ![p] = IF observe THEN Refresher
                                                     ELSE 0]
    /\ UNCHANGED <<settingsVars, validatorVars, probeVars, observe,
                   source_response, held, call_log,
                   poolVars, lock, now,
                   jobVars, force_refresh, fresh_proxies, ret, refreshes>>

\* a lock that never makes a caller wait
LockNeverBlocks == TRUE

\* self._lock can be taken: no caller is inside a with self._lock block
LockIsFree == lock = 0

\* with self._lock: ... if (force_refresh or ... ): the refresh is decided
get_proxy_list_acquire(p) ==
    /\ pc[p] = "gpl_lock"
    /\ LockIsFree
    /\ lock' = p
    /\ IF NeedsRefresh(force_refresh[p], current_time[p])
       THEN /\ pc' = [pc EXCEPT ![p] = "gpl_fetch"]
            /\ refreshes' = [refreshes EXCEPT ![p] = @ + 1]
       ELSE /\ pc' = [pc EXCEPT ![p] = "gpl_return"]
            /\ UNCHANGED refreshes
    /\ call_log' = IF observe
                    THEN Append(call_log,
                                [task |-> p, force |-> force_refresh[p],
                                 within |-> ~Expired(current_time[p])])
                    ELSE call_log
    /\ UNCHANGED <<settingsVars, validatorVars, probeVars, observe,
                   source_response, arrived_during,
                   held, poolVars, now, jobVars, gplVars, gpl_calls>>

\* a refresh that validates whatever was fetched, an empty list included
AfterFetchAlwaysValidates(fresh) == "gpl_validate"

\* if fresh_proxies: validate and replace the pool; else: only a warning
AfterFetch(fresh) == IF fresh # <<>> THEN "gpl_validate" ELSE "gpl_return"

\* a timestamp that the refresh leaves as it was
StampKeepsOld(t) == last_update

\* the value assigned to self.last_update by a refresh that started at t
Stamp(t) == t

\* fresh_proxies = self._fetch_free_proxies(); if fresh_proxies: ... else: ...
get_proxy_list_fetched(p, fresh) ==
    /\ pc[p] = "gpl_fetch"
    /\ fresh_proxies' = [fresh_proxies EXCEPT ![p] = fresh]
    /\ pc' = [pc EXCEPT ![p] = AfterFetch(fresh)]
    /\ UNCHANGED <<settingsVars, validatorVars, probeVars, observe,
                   source_response, histVars, poolVars,
                   lock, now, jobVars, current_time, force_refresh, ret,
                   gpl_calls, refreshes>>

\* the fetch returns one of the lists of FetchResults
get_proxy_list_fetch(p) ==
    \E fresh \in FetchResults : get_proxy_list_fetched(p, fresh)

\* the fetch returns the candidates on offer
get_proxy_list_fetch_offered(p) == get_proxy_list_fetched(p, offered)

Range(s) == {s[i] : i \in 1..Len(s)}

\* self.working_proxies = self._validate_proxies(fresh_proxies)
get_proxy_list_validate(p) ==
    /\ pc[p] = "gpl_validate"
    /\ \E works \in SUBSET Range(Candidates) :
        working_proxies' = _validate_proxies(fresh_proxies[p], works)
    /\ pc' = [pc EXCEPT ![p] = "gpl_stamp"]
    /\ UNCHANGED <<settingsVars, validatorVars, probeVars, observe,
                   source_response, histVars,
                   last_update, lock, now, jobVars, gplVars, gpl_calls,
                   refreshes>>

\* ---- _validate_proxies, step by step
\* The positions of proxies[:50]; the executor keeps them in a FIFO queue.
Positions(fresh) == [i \in 1..Len(FirstN(fresh, TestFirst)) |-> i]

\* an executor that starts a thread for every item
WorkerAlwaysAvailable(p) == TRUE

\* ThreadPoolExecutor(max_workers=max_workers): a queued item is taken when
\* fewer than max_workers of its threads are busy
WorkerAvailable(p) == Cardinality(in_flight[p]) < max_workers

\* with ThreadPoolExecutor(...) as executor:
\*     results = executor.map(self._test_proxy, proxies[:50])
\* map submits every item at once
validate_submit(p) ==
    /\ pc[p] = "gpl_validate"
    /\ work_queue' = [work_queue EXCEPT ![p] = Positions(fresh_proxies[p])]
    /\ in_flight' = [in_flight EXCEPT ![p] = {}]
    /\ finished' = [finished EXCEPT ![p] = <<>>]
    /\ consumed' = [consumed EXCEPT ![p] = 0]
    /\ validated' = [validated EXCEPT ![p] = <<>>]
    /\ pc' = [pc EXCEPT ![p] = "val_loop"]
    /\ UNCHANGED <<settingsVars, scenarioVars, probeVars, observe,
                   source_response, histVars, poolVars, lock, now, jobVars,
                   gplVars, gpl_calls, refreshes>>

\* a thread of the executor takes the next item and calls _test_proxy; the
\* threads go on taking items while the with block is being left
probe_start(p) ==
    /\ pc[p] \in {"val_loop", "val_exit"}
    /\ work_queue[p] # <<>>
    /\ WorkerAvailable(p)
    /\ in_flight' = [in_flight EXCEPT ![p] = @ \cup {Head(work_queue[p])}]
    /\ work_queue' = [work_queue EXCEPT ![p] = Tail(@)]
    /\ UNCHANGED <<settingsVars, scenarioVars, probeVars, observe,
                   source_response, histVars, poolVars, lock, now, pc,
                   jobVars, gplVars, gpl_calls, refreshes, finished,
                   consumed, validated>>

\* a _test_proxy call returns
probe_finish(p) ==
    /\ pc[p] \in {"val_loop", "val_exit"}
    /\ \E i \in in_flight[p] :
        /\ in_flight' = [in_flight EXCEPT ![p] = @ \ {i}]
        /\ finished' = [finished EXCEPT ![p] = Append(@, i)]
    /\ UNCHANGED <<settingsVars, scenarioVars, probeVars, observe,
                   source_response, histVars, poolVars, lock, now, pc,
                   jobVars, gplVars, gpl_calls, refreshes, work_queue,
                   consumed, validated>>

\* an iterator that hands out the results as the probes complete
NextCompleted(p) ==
    IF consumed[p] < Len(finished[p]) THEN finished[p][consumed[p] + 1] ELSE 0

\* the place whose result the iterator of executor.map hands out next: the
\* places of the input, one after the other
NextResult(p) == consumed[p] + 1

\* for proxy, is_working in zip(proxies[:50], results): the iterator of map
\* hands out the results in the order of the input and waits for the next
\* one; the loop ends when there is none left or on the break
validate_next(p) ==
    /\ pc[p] = "val_loop"
    /\ LET cands == FirstN(fresh_proxies[p], TestFirst)
           i == NextResult(p)
       IN IF consumed[p] = Len(Positions(fresh_proxies[p]))
          THEN /\ pc' = [pc EXCEPT ![p] = "val_exit"]
               /\ UNCHANGED <<consumed, validated>>
          ELSE /\ i \in Range(finished[p])
               /\ consumed' = [consumed EXCEPT ![p] = @ + 1]
               /\ LET found == IF cands[i] \in reachable
                               THEN Append(validated[p], cands[i])
                               ELSE validated[p]
                  IN /\ validated' = [validated EXCEPT ![p] = found]
                     /\ pc' = [pc EXCEPT ![p] =
                                 IF cands[i] \in reachable /\ Enough(found)
                                 THEN "val_exit" ELSE "val_loop"]
    /\ UNCHANGED <<settingsVars, scenarioVars, probeVars, observe,
                   source_response, histVars, poolVars, lock, now, jobVars,
                   gplVars, gpl_calls, refreshes, work_queue, in_flight,
                   finished>>

\* leaving the with block is executor.shutdown(wait=True): it returns when
\* the queue is drained and every thread has ended; then
\* self.working_proxies = (the list returned)
validate_exit(p) ==
    /\ pc[p] = "val_exit"
    /\ work_queue[p] = <<>>
    /\ in_flight[p] = {}
    /\ working_proxies' = validated[p]
    /\ pc' = [pc EXCEPT ![p] = "gpl_stamp"]
    /\ UNCHANGED <<settingsVars, validatorVars, probeVars, observe,
                   source_response, histVars, last_update, lock, now,
                   jobVars, gplVars, gpl_calls, refreshes>>

\* self.last_update = current_time
get_proxy_list_stamp(p) ==
    /\ pc[p] = "gpl_stamp"
    /\ last_update' = Stamp(current_time[p])
    /\ pc' = [pc EXCEPT ![p] = "gpl_return"]
    /\ held' = IF observe THEN held \cup {<<working_proxies, last_update'>>}
                ELSE held
    /\ UNCHANGED <<settingsVars, validatorVars, probeVars, observe,
                   source_response, arrived_during,
                   call_log, working_proxies, lock, now, jobVars, gplVars,
                   gpl_calls, refreshes>>

\* return self.working_proxies if self.working_proxies else None
\* (leaving the with block releases the lock)
get_proxy_list_return(p) ==
    /\ pc[p] = "gpl_return"
    /\ ret' = [ret EXCEPT ![p] = Returned(IF working_proxies # <<>>
                                          THEN PySome(working_proxies)
                                          ELSE PyNone)]
    /\ lock' = 0
    /\ current_time' = [current_time EXCEPT ![p] = 0]
    /\ force_refresh' = [force_refresh EXCEPT ![p] = FALSE]
    /\ fresh_proxies' = [fresh_proxies EXCEPT ![p] = <<>>]
    /\ pc' = [pc EXCEPT ![p] = IF p \in JobTasks THEN "jobs_proxies"
                               ELSE IF p \in AdminTasks THEN "admin_proxies"
                               ELSE IF p \in ScrapingTasks
                                    THEN IF response[p] = NoResponse
                                         THEN "scraping_proxies"
                                         ELSE "scraping_count"
                               ELSE "health_proxies"]
    /\ UNCHANGED <<settingsVars, validatorVars, probeVars, observe,
                   source_response, histVars, poolVars,
                   now, jobVars, gpl_calls, refreshes>>

\* a lock that an exception leaves with its holder
LockKeptOnRaise(p) == p

\* the with block is left by an exception: __exit__ releases the lock
LockOnRaise(p) == 0

\* An exception leaves get_proxy_list while the refresh is running (the
\* validator's thread pool cannot be started); the with block releases the
\* lock and the pool is as it was.
get_proxy_list_raise(p) ==
    /\ pc[p] = "gpl_validate"
    /\ \E t \in ErrorTexts : ret' = [ret EXCEPT ![p] = Raised(t)]
    /\ lock' = LockOnRaise(p)
    /\ current_time' = [current_time EXCEPT ![p] = 0]
    /\ force_refresh' = [force_refresh EXCEPT ![p] = FALSE]
    /\ fresh_proxies' = [fresh_proxies EXCEPT ![p] = <<>>]
    /\ pc' = [pc EXCEPT ![p] = IF p \in JobTasks THEN "jobs_proxies_raised"
                               ELSE IF p \in AdminTasks
                                    THEN "admin_proxies_raised"
                               ELSE IF p \in ScrapingTasks
                                    THEN "scraping_raised"
                               ELSE "health_proxies_raised"]
    /\ UNCHANGED <<settingsVars, validatorVars, probeVars, observe,
                   source_response, histVars, poolVars,
                   now, jobVars, gpl_calls, refreshes>>


\* -------------------------------------------------------------- get_jobs
\* the response returned when the pool is empty and fallback is disabled
ProxyUnavailableResponse ==
    JobSearchResponse(FALSE, <<>>,
        ScrapingError("proxy_unavailable", MSG_PROXY_UNAVAILABLE,
            [proxy_system_enabled |-> USE_PROXIES,
             fallback_enabled |-> PROXY_FALLBACK_ENABLED,
             working_proxies |-> 0],
            <<"Try refreshing the proxy list: POST /admin/refresh-proxies",
              "Enable fallback scraping: set PROXY_FALLBACK_ENABLED=true (may cause rate limiting)",
              "Check proxy system health: GET /health/proxies",
              "Wait a few minutes and try again as new proxies may become available">>),
        PyNone)

\* the response returned when get_proxy_list raised and fallback is disabled
ProxyFetchFailedResponse(text) ==
    JobSearchResponse(FALSE, <<>>,
        ScrapingError("proxy_fetch_failed", MSG_PROXY_FETCH_FAILED \o text,
            [proxy_system_enabled |-> USE_PROXIES,
             fallback_enabled |-> PROXY_FALLBACK_ENABLED,
             error_details |-> text],
            <<"Check network connectivity",
              "Try refreshing the proxy list: POST /admin/refresh-proxies",
              "Enable fallback scraping: set PROXY_FALLBACK_ENABLED=true (may cause rate limiting)",
              "Check proxy system health: GET /health/proxies">>),
        PyNone)

\* the response of a first attempt that succeeded
SuccessResponse(jobs, prm, prx) ==
    JobSearchResponse(TRUE, jobs, PyNone,
        [total_results |-> Len(jobs),
         used_proxies |-> LenOrZero(prx),
         proxy_enabled |-> USE_PROXIES,
         search_params |-> SearchParamsEcho(prm)])

\* the response of a retry that succeeded
FallbackSuccessResponseNoFlag(jobs, prm, text) ==
    JobSearchResponse(TRUE, jobs, PyNone,
        [total_results |-> Len(jobs),
         used_proxies |-> 0,
         proxy_enabled |-> USE_PROXIES,
         original_error |-> text,
         search_params |-> SearchParamsEcho(prm)])
FallbackSuccessResponse(jobs, prm, text) ==
    JobSearchResponse(TRUE, jobs, PyNone,
        [total_results |-> Len(jobs),
         used_proxies |-> 0,
         proxy_enabled |-> USE_PROXIES,
         fallback_used |-> TRUE,
         original_error |-> text,
         search_params |-> SearchParamsEcho(prm)])

\* the response of a retry that failed
BothFailedResponse(text, fallback_text) ==
    JobSearchResponse(FALSE, <<>>,
        ScrapingError("scraping_failed", MSG_BOTH_FAILED,
            [original_error |-> text,
             fallback_error |-> fallback_text,
             proxy_enabled |-> USE_PROXIES,
             fallback_enabled |-> PROXY_FALLBACK_ENABLED],
            <<"Check network connectivity",
              "Verify search parameters are valid",
              "Try again in a few minutes",
              "Check service status: GET /health/proxies">>),
        PyNone)

\* the response of a failed attempt that is not retried
ScrapingFailedResponseByContext(text, prx) ==
    JobSearchResponse(FALSE, <<>>,
        ScrapingError(
            IF PROXY_FALLBACK_ENABLED THEN "scraping_failed"
            ELSE "proxy_unavailable",
            IF PROXY_FALLBACK_ENABLED
            THEN MSG_SCRAPING_FAILED \o text
            ELSE MSG_SCRAPING_FAILED_NO_FALLBACK \o text,
            [error |-> text,
             proxy_enabled |-> USE_PROXIES,
             fallback_enabled |-> PROXY_FALLBACK_ENABLED,
             had_proxies |-> (~prx.isNone) /\ Len(prx.v) > 0],
            <<"Verify search parameters are valid">>),
        PyNone)
ScrapingFailedResponse(text, prx) ==
    JobSearchResponse(FALSE, <<>>,
        ScrapingError("scraping_failed",
            IF PROXY_FALLBACK_ENABLED
            THEN MSG_SCRAPING_FAILED \o text
            ELSE MSG_SCRAPING_FAILED_NO_FALLBACK \o text,
            [error |-> text,
             proxy_enabled |-> USE_PROXIES,
             fallback_enabled |-> PROXY_FALLBACK_ENABLED,
             had_proxies |-> (~prx.isNone) /\ Len(prx.v) > 0],
            IF PROXY_FALLBACK_ENABLED
            THEN <<"Check network connectivity",
                   "Verify search parameters are valid",
                   "Try again in a few minutes",
                   "Check if LinkedIn is accessible">>
            ELSE <<"Enable fallback scraping: set PROXY_FALLBACK_ENABLED=true",
                   "Check proxy system: GET /health/proxies",
                   "Try refreshing proxies: POST /admin/refresh-proxies",
                   "Verify search parameters are valid">>),
        PyNone)

\* if proxies and settings.PROXY_FALLBACK_ENABLED and "proxy" in str(e).lower()
ShouldRetryIgnoringFallback(prx, text) ==
    Truthy(prx) /\ IsProxyError(text)
ShouldRetry(prx, text) ==
    Truthy(prx) /\ PROXY_FALLBACK_ENABLED /\ IsProxyError(text)

\* if settings.USE_PROXIES: the pool is asked for proxies
UsesPoolAlways == TRUE
UsesPool == USE_PROXIES

\* after get_proxy_list: the scrape goes ahead with proxies, or without
\* them when fallback is enabled; otherwise the request is aborted
ProceedsOnlyWithProxies(prx) == Truthy(prx)
ProceedsAlways(prx) == TRUE
ProceedsToScrape(prx) == Truthy(prx) \/ PROXY_FALLBACK_ENABLED

\* the except clause that catches an exception raised at a site of
\* get_jobs, by the nesting of its try blocks
ExceptHandlerRetryUncaught(site) ==
    CASE site = "get_proxy_list" -> "except_52"
      [] site = "scrape" -> "except_128"
      [] site = "retry" -> "uncaught"
ExceptHandler(site) ==
    CASE site = "get_proxy_list" -> "except_52"
      [] site = "scrape" -> "except_128"
      [] site = "retry" -> "except_167"

\* where the handler of the first attempt resumes when it decides to retry:
\* at the second scrape_jobs call, not at the pool acquisition
RetryEntryReacquires == "gpl_enter"
RetryEntry == "retry"

\* a request arrives: get_jobs runs up to the call of get_proxy_list, or up
\* to the scrape when proxies are disabled
get_jobs_start(p) ==
    /\ p \in JobTasks
    /\ pc[p] \in {"idle", "done"}
    /\ \E prm \in ParamsSet : params' = [params EXCEPT ![p] = prm]
    /\ proxies' = [proxies EXCEPT ![p] = PyNone]
    /\ scrape_kwargs' = [scrape_kwargs EXCEPT ![p] = PyNone]
    /\ e' = [e EXCEPT ![p] = <<>>]
    /\ response' = [response EXCEPT ![p] = NoResponse]
    /\ scrape_calls' = [scrape_calls EXCEPT ![p] = <<>>]
    /\ refreshes' = [refreshes EXCEPT ![p] = 0]
    /\ ret' = [ret EXCEPT ![p] = NoReturn]
    /\ gpl_calls' = [gpl_calls EXCEPT ![p] = 0]
    /\ IF UsesPool
       THEN /\ pc' = [pc EXCEPT ![p] = "gpl_enter"]
            /\ force_refresh' = [force_refresh EXCEPT ![p] = FALSE]
       ELSE /\ pc' = [pc EXCEPT ![p] = "scrape"]
            /\ UNCHANGED force_refresh
    /\ UNCHANGED <<settingsVars, validatorVars, probeVars, observe,
                   source_response, histVars, poolVars,
                   lock, now, current_time, fresh_proxies>>

\* proxies = proxy_manager.get_proxy_list() returned
get_jobs_proxies(p) ==
    /\ pc[p] = "jobs_proxies"
    /\ proxies' = [proxies EXCEPT ![p] = ret[p].value]
    /\ IF ProceedsToScrape(ret[p].value)
       THEN /\ pc' = [pc EXCEPT ![p] = "scrape"]
            /\ UNCHANGED response
       ELSE /\ pc' = [pc EXCEPT ![p] = "done"]
            /\ response' = [response EXCEPT ![p] = ProxyUnavailableResponse]
    /\ UNCHANGED <<settingsVars, validatorVars, probeVars, observe,
                   source_response, histVars, poolVars,
                   lock, now, params, scrape_kwargs, e, scrape_calls, gplVars,
                   gpl_calls, refreshes>>

\* proxy_manager.get_proxy_list() raised: except Exception as e
get_jobs_proxies_raised(p) ==
    /\ pc[p] = "jobs_proxies_raised"
    /\ IF ExceptHandler("get_proxy_list") = "uncaught"
       THEN /\ pc' = [pc EXCEPT ![p] = "propagated"]
            /\ UNCHANGED response
       ELSE IF ProceedsToScrape(proxies[p])
       THEN /\ pc' = [pc EXCEPT ![p] = "scrape"]
            /\ UNCHANGED response
       ELSE /\ pc' = [pc EXCEPT ![p] = "done"]
            /\ response' = [response EXCEPT
                               ![p] = ProxyFetchFailedResponse(ret[p].text)]
    /\ UNCHANGED <<settingsVars, validatorVars, probeVars, observe,
                   source_response, histVars, poolVars,
                   lock, now, params, proxies, scrape_kwargs, e, scrape_calls,
                   gplVars, gpl_calls, refreshes>>

\* the first attempt: scrape_kwargs is built, scrape_jobs is invoked, its
\* data is normalised and validated; an exception of any of these runs the
\* handler, which either asks for the retry or returns the failure
get_jobs_scrape(p) ==
    /\ pc[p] = "scrape"
    /\ \E r \in ScrapeReturns, vt \in ErrorTexts :
        LET kw == ScrapeKwargs(params[p], proxies[p])
            raised == r.kind = "raise" \/ ~AllValid(r.batch)
            text == IF r.kind = "raise" THEN r.text ELSE vt
        IN  /\ scrape_kwargs' = [scrape_kwargs EXCEPT ![p] = kw]
            /\ scrape_calls' = [scrape_calls EXCEPT ![p] =
                  Append(@, [kwargs |-> kw, raised |-> raised,
                             text |-> IF raised THEN text ELSE <<>>,
                             kind |-> r.kind, records |-> Len(r.batch)])]
            /\ IF ~raised
               THEN /\ response' = [response EXCEPT ![p] =
                          SuccessResponse(ValidatedJobs(r.batch), params[p],
                                          proxies[p])]
                    /\ pc' = [pc EXCEPT ![p] = "done"]
                    /\ UNCHANGED e
               ELSE /\ e' = [e EXCEPT ![p] = text]
                    /\ IF ExceptHandler("scrape") = "uncaught"
                       THEN /\ pc' = [pc EXCEPT ![p] = "propagated"]
                            /\ UNCHANGED response
                       ELSE IF ShouldRetry(proxies[p], text)
                       THEN /\ pc' = [pc EXCEPT ![p] = RetryEntry]
                            /\ UNCHANGED response
                       ELSE /\ pc' = [pc EXCEPT ![p] = "done"]
                            /\ response' = [response EXCEPT ![p] =
                                  ScrapingFailedResponse(text, proxies[p])]
    /\ UNCHANGED <<settingsVars, validatorVars, probeVars, observe,
                   source_response, histVars, poolVars,
                   lock, now, params, proxies, gplVars, gpl_calls, refreshes>>

\* the retry: scrape_kwargs["proxies"] = None, scrape_jobs is invoked again
get_jobs_retry(p) ==
    /\ pc[p] = "retry"
    /\ \E r \in ScrapeReturns, vt \in ErrorTexts :
        LET kw == [scrape_kwargs[p] EXCEPT !.proxies = PyNone]
            raised == r.kind = "raise" \/ ~AllValid(r.batch)
            text == IF r.kind = "raise" THEN r.text ELSE vt
        IN  /\ scrape_kwargs' = [scrape_kwargs EXCEPT ![p] = kw]
            /\ scrape_calls' = [scrape_calls EXCEPT ![p] =
                  Append(@, [kwargs |-> kw, raised |-> raised,
                             text |-> IF raised THEN text ELSE <<>>,
                             kind |-> r.kind, records |-> Len(r.batch)])]
            /\ IF raised /\ ExceptHandler("retry") = "uncaught"
               THEN /\ pc' = [pc EXCEPT ![p] = "propagated"]
                    /\ UNCHANGED response
               ELSE /\ response' = [response EXCEPT ![p] =
                          IF ~raised
                          THEN FallbackSuccessResponse(ValidatedJobs(r.batch),
                                                       params[p], e[p])
                          ELSE BothFailedResponse(e[p], text)]
                    /\ pc' = [pc EXCEPT ![p] = "done"]
    /\ UNCHANGED <<settingsVars, validatorVars, probeVars, observe,
                   source_response, histVars, poolVars,
                   lock, now, params, proxies, e, gplVars, gpl_calls,
                   refreshes>>

\* ------------------------------------------------------- refresh_proxies
MSG_REFRESH_FAILED == <<"F","a","i","l","e","d"," ","t","o"," ","r","e","f","r","e","s","h"," ","p","r","o","x","i","e","s",":"," ">>

\* a handler that asks for the pool without forcing
RefreshProxiesUnforced == FALSE

\* proxy_manager.get_proxy_list(force_refresh=True)
RefreshProxiesForce == TRUE

\* POST /admin/refresh-proxies arrives: get_proxy_list(force_refresh=True)
refresh_proxies_start(p) ==
    /\ p \in AdminTasks
    /\ pc[p] \in {"idle", "done"}
    /\ pc' = [pc EXCEPT ![p] = "gpl_enter"]
    /\ force_refresh' = [force_refresh EXCEPT ![p] = RefreshProxiesForce]
    /\ ret' = [ret EXCEPT ![p] = NoReturn]
    /\ response' = [response EXCEPT ![p] = NoResponse]
    /\ gpl_calls' = [gpl_calls EXCEPT ![p] = 0]
    /\ refreshes' = [refreshes EXCEPT ![p] = 0]
    /\ UNCHANGED <<settingsVars, validatorVars, probeVars, observe,
                   source_response, histVars, poolVars,
                   lock, now, params, proxies, scrape_kwargs, e, scrape_calls,
                   current_time, fresh_proxies>>

\* the handler answers with the working-proxy count
refresh_proxies_return(p) ==
    /\ pc[p] = "admin_proxies"
    /\ response' = [response EXCEPT ![p] =
          [status_code |-> 200, message |-> "Proxy list refreshed",
           working_proxies |-> LenOrZero(ret[p].value)]]
    /\ pc' = [pc EXCEPT ![p] = "done"]
    /\ UNCHANGED <<settingsVars, validatorVars, probeVars, observe,
                   source_response, histVars, poolVars,
                   lock, now, params, proxies, scrape_kwargs, e, scrape_calls,
                   gplVars, gpl_calls, refreshes>>

\* except Exception as e: raise HTTPException(status_code=500, ...)
refresh_proxies_raised(p) ==
    /\ pc[p] = "admin_proxies_raised"
    /\ response' = [response EXCEPT ![p] =
          [status_code |-> 500, detail |-> MSG_REFRESH_FAILED \o ret[p].text]]
    /\ pc' = [pc EXCEPT ![p] = "done"]
    /\ UNCHANGED <<settingsVars, validatorVars, probeVars, observe,
                   source_response, histVars, poolVars,
                   lock, now, params, proxies, scrape_kwargs, e, scrape_calls,
                   gplVars, gpl_calls, refreshes>>

\* ------------------------------------------------------------ proxy_health
\* GET /health/proxies arrives: proxies = proxy_manager.get_proxy_list()
proxy_health_start(p) ==
    /\ p \in HealthTasks
    /\ pc[p] \in {"idle", "done"}
    /\ pc' = [pc EXCEPT ![p] = "gpl_enter"]
    /\ force_refresh' = [force_refresh EXCEPT ![p] = FALSE]
    /\ ret' = [ret EXCEPT ![p] = NoReturn]
    /\ response' = [response EXCEPT ![p] = NoResponse]
    /\ gpl_calls' = [gpl_calls EXCEPT ![p] = 0]
    /\ refreshes' = [refreshes EXCEPT ![p] = 0]
    /\ UNCHANGED <<settingsVars, validatorVars, probeVars, observe,
                   source_response, histVars, poolVars,
                   lock, now, params, proxies, scrape_kwargs, e,
                   scrape_calls, current_time, fresh_proxies>>

\* the handler builds its answer: the count of the list it was given and
\* proxy_manager.last_update, read now and without the lock
proxy_health_return(p) ==
    /\ pc[p] = "health_proxies"
    /\ response' = [response EXCEPT ![p] =
          [status_code |-> 200, proxy_system_enabled |-> TRUE,
           working_proxies |-> LenOrZero(ret[p].value),
           last_update |-> last_update,
           status |-> IF Truthy(ret[p].value) THEN "healthy"
                      ELSE "no_proxies_available"]]
    /\ pc' = [pc EXCEPT ![p] = "done"]
    /\ UNCHANGED <<settingsVars, validatorVars, probeVars, observe,
                   source_response, histVars, poolVars,
                   lock, now, params, proxies, scrape_kwargs, e,
                   scrape_calls, gplVars, gpl_calls, refreshes>>

\* except Exception as e: return JSONResponse(status_code=500, ...)
proxy_health_raised(p) ==
    /\ pc[p] = "health_proxies_raised"
    /\ response' = [response EXCEPT ![p] =
          [status_code |-> 500, proxy_system_enabled |-> TRUE,
           working_proxies |-> 0, error |-> ret[p].text,
           status |-> "error"]]
    /\ pc' = [pc EXCEPT ![p] = "done"]
    /\ UNCHANGED <<settingsVars, validatorVars, probeVars, observe,
                   source_response, histVars, poolVars,
                   lock, now, params, proxies, scrape_kwargs, e,
                   scrape_calls, gplVars, gpl_calls, refreshes>>

\* ---------------------------------------------------------- scraping_health
\* the locals scraping_available and reason, before the answer is built
ScrapingLocals(available) ==
    [pending |-> TRUE, scraping_available |-> available,
     reason |-> IF available
                THEN "Scraping is available"
                ELSE "Scraping unavailable: No working proxies and fallback disabled"]

\* GET /health/scraping arrives: scraping_available = True; with proxies in
\* use and no fallback, proxies = proxy_manager.get_proxy_list()
scraping_health_start(p) ==
    /\ p \in ScrapingTasks
    /\ pc[p] \in {"idle", "done"}
    /\ IF USE_PROXIES /\ ~PROXY_FALLBACK_ENABLED
       THEN /\ pc' = [pc EXCEPT ![p] = "gpl_enter"]
            /\ response' = [response EXCEPT ![p] = NoResponse]
       ELSE /\ pc' = [pc EXCEPT ![p] = "scraping_dict"]
            /\ response' = [response EXCEPT ![p] = ScrapingLocals(TRUE)]
    /\ force_refresh' = [force_refresh EXCEPT ![p] = FALSE]
    /\ ret' = [ret EXCEPT ![p] = NoReturn]
    /\ gpl_calls' = [gpl_calls EXCEPT ![p] = 0]
    /\ refreshes' = [refreshes EXCEPT ![p] = 0]
    /\ UNCHANGED <<settingsVars, validatorVars, probeVars, observe,
                   source_response, histVars, poolVars,
                   lock, now, params, proxies, scrape_kwargs, e,
                   scrape_calls, current_time, fresh_proxies>>

\* if not proxies: scraping_available = False
scraping_health_proxies(p) ==
    /\ pc[p] = "scraping_proxies"
    /\ response' = [response EXCEPT ![p] = ScrapingLocals(Truthy(ret[p].value))]
    /\ pc' = [pc EXCEPT ![p] = "scraping_dict"]
    /\ UNCHANGED <<settingsVars, validatorVars, probeVars, observe,
                   source_response, histVars, poolVars,
                   lock, now, params, proxies, scrape_kwargs, e,
                   scrape_calls, gplVars, gpl_calls, refreshes>>

\* "working_proxies": len(proxy_manager.get_proxy_list() or []): the answer
\* is being built and get_proxy_list is called again
scraping_health_count(p) ==
    /\ pc[p] = "scraping_dict"
    /\ pc' = [pc EXCEPT ![p] = "gpl_enter"]
    /\ force_refresh' = [force_refresh EXCEPT ![p] = FALSE]
    /\ ret' = [ret EXCEPT ![p] = NoReturn]
    /\ UNCHANGED <<settingsVars, validatorVars, probeVars, observe,
                   source_response, histVars, poolVars,
                   lock, now, jobVars, current_time, fresh_proxies,
                   gpl_calls, refreshes>>

\* the handler returns the dict
scraping_health_return(p) ==
    /\ pc[p] = "scraping_count"
    /\ response' = [response EXCEPT ![p] =
          [status_code |-> 200,
           scraping_available |-> response[p].scraping_available,
           use_proxies |-> USE_PROXIES,
           fallback_enabled |-> PROXY_FALLBACK_ENABLED,
           working_proxies |-> LenOrZero(ret[p].value),
           reason |-> response[p].reason]]
    /\ pc' = [pc EXCEPT ![p] = "done"]
    /\ UNCHANGED <<settingsVars, validatorVars, probeVars, observe,
                   source_response, histVars, poolVars,
                   lock, now, params, proxies, scrape_kwargs, e,
                   scrape_calls, gplVars, gpl_calls, refreshes>>

\* except Exception as e: return JSONResponse(status_code=500, ...)
scraping_health_raised(p) ==
    /\ pc[p] = "scraping_raised"
    /\ response' = [response EXCEPT ![p] =
          [status_code |-> 500, scraping_available |-> FALSE,
           error |-> ret[p].text,
           reason |-> "Error checking scraping availability"]]
    /\ pc' = [pc EXCEPT ![p] = "done"]
    /\ UNCHANGED <<settingsVars, validatorVars, probeVars, observe,
                   source_response, histVars, poolVars,
                   lock, now, params, proxies, scrape_kwargs, e,
                   scrape_calls, gplVars, gpl_calls, refreshes>>

\* --------------------------------------------------------- specification
Next ==
    \/ Tick
    \/ \E p \in Tasks :
        \/ get_jobs_start(p)
        \/ get_proxy_list_enter(p)
        \/ get_proxy_list_acquire(p)
        \/ get_proxy_list_fetch(p)
        \/ get_proxy_list_validate(p)
        \/ get_proxy_list_stamp(p)
        \/ get_proxy_list_return(p)
        \/ get_proxy_list_raise(p)
        \/ get_jobs_proxies(p)
        \/ get_jobs_proxies_raised(p)
        \/ get_jobs_scrape(p)
        \/ get_jobs_retry(p)
        \/ refresh_proxies_start(p)
        \/ refresh_proxies_return(p)
        \/ refresh_proxies_raised(p)

Spec == Init /\ [][Next]_vars

\* the state in which the tasks T have not called anything yet
CallersInit(T) ==
    /\ working_proxies = <<>>
    /\ last_update = 0
    /\ lock = 0
    /\ now = StartTime
    /\ pc = [p \in T |-> "idle"]
    /\ params = [p \in T |-> PyNone]
    /\ proxies = [p \in T |-> PyNone]
    /\ scrape_kwargs = [p \in T |-> PyNone]
    /\ e = [p \in T |-> <<>>]
    /\ response = [p \in T |-> NoResponse]
    /\ current_time = [p \in T |-> 0]
    /\ force_refresh = [p \in T |-> FALSE]
    /\ fresh_proxies = [p \in T |-> <<>>]
    /\ ret = [p \in T |-> NoReturn]
    /\ scrape_calls = [p \in T |-> <<>>]
    /\ gpl_calls = [p \in T |-> 0]
    /\ refreshes = [p \in T |-> 0]
    /\ arrived_during = [p \in T |-> 0]
    /\ held = {<<working_proxies, last_update>>}
    /\ call_log = <<>>
    /\ ExecutorsInit(T)

\* ------------------------------------------- specification of the pool alone
\* The proxy pool under its two direct callers of main.py: refresh_proxies
\* (forced) and proxy_health (not forced), each task serving one request, on
\* a clock fine enough for an age of exactly update_interval.
PoolInit ==
    /\ USE_PROXIES = TRUE
    /\ PROXY_FALLBACK_ENABLED = TRUE
    /\ PROXY_UPDATE_INTERVAL = DefaultUpdateInterval
    /\ CallersInit(PoolTasks)
    /\ source_response = NoSourceResponse
    /\ observe = TRUE
    /\ NoScenario

\* the clock advances
PoolTick ==
    /\ now < StartTime + MaxPoolTicks * PoolTickStep
    /\ now' = now + PoolTickStep
    /\ UNCHANGED <<settingsVars, validatorVars, probeVars, observe,
                   source_response, histVars, poolVars,
                   lock, pc, jobVars, gplVars, gpl_calls, refreshes>>

PoolNext ==
    \/ PoolTick
    \/ \E p \in PoolTasks :
        \/ pc[p] = "idle" /\ refresh_proxies_start(p)
        \/ pc[p] = "idle" /\ proxy_health_start(p)
        \/ get_proxy_list_enter(p)
        \/ get_proxy_list_acquire(p)
        \/ get_proxy_list_fetch(p)
        \/ get_proxy_list_validate(p)
        \/ get_proxy_list_stamp(p)
        \/ get_proxy_list_return(p)
        \/ get_proxy_list_raise(p)
        \/ refresh_proxies_return(p)
        \/ refresh_proxies_raised(p)
        \/ proxy_health_return(p)
        \/ proxy_health_raised(p)

PoolSpec == PoolInit /\ [][PoolNext]_vars

\* ------------------------------------- specification of the scraping check
\* GET /health/scraping beside the admin's forced refresh, one request per
\* task, under every combination of the two proxy switches and under the
\* configured refresh intervals of ConfiguredIntervals.
\* values of the environment variable PROXY_UPDATE_INTERVAL
ConfiguredIntervals == {PoolTickStep, DefaultUpdateInterval}

ScrapingInit ==
    /\ USE_PROXIES \in BOOLEAN
    /\ PROXY_FALLBACK_ENABLED \in BOOLEAN
    /\ PROXY_UPDATE_INTERVAL \in ConfiguredIntervals
    /\ CallersInit(AdminTasks \cup ScrapingTasks)
    /\ source_response = NoSourceResponse
    /\ observe = FALSE
    /\ NoScenario

ScrapingNext ==
    \/ PoolTick
    \/ \E p \in AdminTasks \cup ScrapingTasks :
        \/ pc[p] = "idle" /\ refresh_proxies_start(p)
        \/ pc[p] = "idle" /\ scraping_health_start(p)
        \/ scraping_health_proxies(p)
        \/ scraping_health_count(p)
        \/ scraping_health_return(p)
        \/ scraping_health_raised(p)
        \/ get_proxy_list_enter(p)
        \/ get_proxy_list_acquire(p)
        \/ get_proxy_list_fetch(p)
        \/ get_proxy_list_validate(p)
        \/ get_proxy_list_stamp(p)
        \/ get_proxy_list_return(p)
        \/ get_proxy_list_raise(p)
        \/ refresh_proxies_return(p)
        \/ refresh_proxies_raised(p)

ScrapingSpec == ScrapingInit /\ [][ScrapingNext]_vars

\* ------------------------------------ specification of _fetch_free_proxies
\* One caller applies _fetch_free_proxies to an answer of the source.
FetchTasks == {5}

FetchInit ==
    /\ USE_PROXIES = TRUE
    /\ PROXY_FALLBACK_ENABLED = TRUE
    /\ PROXY_UPDATE_INTERVAL = DefaultUpdateInterval
    /\ CallersInit(FetchTasks)
    /\ source_response \in SourceResponses
    /\ observe = FALSE
    /\ NoScenario

\* return list(set(all_proxies))
fetch_free_proxies_return(p) ==
    /\ pc[p] = "idle"
    /\ \E fresh \in ListsOf(_fetch_free_proxies(source_response)) :
          fresh_proxies' = [fresh_proxies EXCEPT ![p] = fresh]
    /\ pc' = [pc EXCEPT ![p] = "fetched"]
    /\ UNCHANGED <<settingsVars, validatorVars, probeVars, observe,
                   source_response, histVars,
                   poolVars, lock, now, jobVars, current_time,
                   force_refresh, ret, gpl_calls, refreshes>>

FetchNext == \E p \in FetchTasks : fetch_free_proxies_return(p)

FetchSpec == FetchInit /\ [][FetchNext]_vars

\* ------------------------------------------ specification of the validator
\* get_proxy_list under refresh_proxies and proxy_health, one request each,
\* with _validate_proxies taken step by step: the items submitted to the
\* executor, the probes its threads run and the loop over the results. A
\* proxy is the number of its place on the source's list. get_proxy_list
\* passes no max_workers, so the pool has DefaultMaxWorkers threads; the
\* validator is also run with the pools of SmallPools, which are smaller
\* than the lists, and with a list longer than TestFirst, which is probed by
\* a single thread.
ValidateTasks == {2, 3}

Ids(n) == [i \in 1..n |-> i]

SmallPools == {1, 2}

\* the patterns of working proxies tried on a long list: all, none, the last
\* four, every third
LongPatterns(n) ==
    {1..n, {}, {k \in 1..n : k > n - 4}, {k \in 1..n : k % 3 = 0}}

ValidateInit ==
    /\ USE_PROXIES = TRUE
    /\ PROXY_FALLBACK_ENABLED = TRUE
    /\ PROXY_UPDATE_INTERVAL = DefaultUpdateInterval
    /\ CallersInit(ValidateTasks)
    /\ source_response = NoSourceResponse
    /\ observe = FALSE
    /\ answers = <<>>
    /\ is_working = PyNone
    /\ \/ \E n \in 0..MaxShort :
            /\ offered = Ids(n)
            /\ reachable \in SUBSET (1..n)
            /\ max_workers \in SmallPools \cup {DefaultMaxWorkers}
       \/ /\ offered = Ids(LongList)
          /\ reachable \in LongPatterns(LongList)
          /\ max_workers = 1

ValidateNext ==
    \E p \in ValidateTasks :
        \/ pc[p] = "idle" /\ refresh_proxies_start(p)
        \/ pc[p] = "idle" /\ proxy_health_start(p)
        \/ get_proxy_list_enter(p)
        \/ get_proxy_list_acquire(p)
        \/ get_proxy_list_fetch_offered(p)
        \/ validate_submit(p)
        \/ probe_start(p)
        \/ probe_finish(p)
        \/ validate_next(p)
        \/ validate_exit(p)
        \/ get_proxy_list_stamp(p)
        \/ get_proxy_list_return(p)
        \/ get_proxy_list_raise(p)
        \/ refresh_proxies_return(p)
        \/ refresh_proxies_raised(p)
        \/ proxy_health_return(p)
        \/ proxy_health_raised(p)

ValidateSpec == ValidateInit /\ [][ValidateNext]_vars

\* ---------------------------------- the validator under fair scheduling
\* Every thread that can take a step takes one (the requests of the fetch
\* and of the probes end by an answer, an error or their timeout), and a
\* caller that finds the lock free again and again gets it.
ValidateFairness ==
    \A p \in ValidateTasks :
        /\ WF_vars(\/ get_proxy_list_enter(p)
                   \/ get_proxy_list_fetch_offered(p)
                   \/ validate_submit(p)
                   \/ probe_start(p)
                   \/ probe_finish(p)
                   \/ validate_next(p)
                   \/ validate_exit(p)
                   \/ get_proxy_list_stamp(p)
                   \/ get_proxy_list_return(p))
        /\ SF_vars(get_proxy_list_acquire(p))

\* the scenarios of the short lists, with pools smaller and larger than
\* the list
ValidateLiveInit ==
    /\ USE_PROXIES = TRUE
    /\ PROXY_FALLBACK_ENABLED = TRUE
    /\ PROXY_UPDATE_INTERVAL = DefaultUpdateInterval
    /\ CallersInit(ValidateTasks)
    /\ source_response = NoSourceResponse
    /\ observe = FALSE
    /\ answers = <<>>
    /\ is_working = PyNone
    /\ \E n \in 0..MaxShort :
            /\ offered = Ids(n)
            /\ reachable \in SUBSET (1..n)
            /\ max_workers \in SmallPools \cup {DefaultMaxWorkers}

ValidateLiveSpec ==
    ValidateLiveInit /\ [][ValidateNext]_vars /\ ValidateFairness

\* ---------------------------------------------- specification of the probe
\* _test_proxy alone, for every pair of things its two requests can do.
test_urls == <<"http://httpbin.org/ip", "http://icanhazip.com">>

\* requests.get raised (a network error, a proxy error, the timeout)
RequestRaised(kind) == [raised |-> TRUE, exception |-> kind, status_code |-> 0]

\* requests.get returned a response with this status
RequestAnswered(code) ==
    [raised |-> FALSE, exception |-> "", status_code |-> code]

EndpointAnswers ==
    {RequestRaised(k) : k \in {"ConnectionError", "ProxyError", "Timeout"}}
    \cup {RequestAnswered(c) : c \in {200, 204, 403, 404, 500, 502}}

\* try: for test_url in test_urls: response = requests.get(...);
\*          if response.status_code == 200: return True
\* except Exception: pass
\* return False
\* (the try encloses the loop: an exception ends the loop)
RECURSIVE _test_proxy(_)
_test_proxy(ans) ==
    IF ans = <<>> THEN FALSE
    ELSE IF Head(ans).raised THEN FALSE
    ELSE IF Head(ans).status_code = 200 THEN TRUE
    ELSE _test_proxy(Tail(ans))

ProbeTasks == {6}

ProbeInit ==
    /\ USE_PROXIES = TRUE
    /\ PROXY_FALLBACK_ENABLED = TRUE
    /\ PROXY_UPDATE_INTERVAL = DefaultUpdateInterval
    /\ CallersInit(ProbeTasks)
    /\ source_response = NoSourceResponse
    /\ observe = FALSE
    /\ offered = <<>>
    /\ reachable = {}
    /\ max_workers = DefaultMaxWorkers
    /\ answers \in [1..Len(test_urls) -> EndpointAnswers]
    /\ is_working = PyNone

\* _test_proxy runs and returns
test_proxy_return(p) ==
    /\ pc[p] = "idle"
    /\ is_working' = PySome(_test_proxy(answers))
    /\ pc' = [pc EXCEPT ![p] = "probed"]
    /\ UNCHANGED <<settingsVars, validatorVars, answers, observe,
                   source_response, histVars, poolVars, lock, now, jobVars,
                   gplVars, gpl_calls, refreshes>>

ProbeNext == \E p \in ProbeTasks : test_proxy_return(p)

ProbeSpec == ProbeInit /\ [][ProbeNext]_vars


\* ------------------------------------------------------------ properties
\* two characters are the same letter, whatever their case
SameLetter(a, b) ==
    a = b \/ \E i \in 1..Len(UPPER) : {a, b} = {UPPER[i], LOWER[i]}

\* the text contains the word "proxy" in some mix of letter cases
MentionsProxy(text) ==
    \E k \in 0..(Len(text) - Len(NEEDLE)) :
        \A j \in 1..Len(NEEDLE) : SameLetter(text[k + j], NEEDLE[j])

\* the proxy list is absent (None) or empty
AbsentOrEmpty(prx) == prx.isNone \/ prx.v = <<>>

\* positions of a task inside get_proxy_list
InGetProxyList(p) ==
    pc[p] \in {"gpl_enter", "gpl_lock", "gpl_fetch", "gpl_validate",
               "gpl_stamp", "gpl_return"}

\* C1: with USE_PROXIES true and PROXY_FALLBACK_ENABLED false, no scrape_jobs
\* invocation of a request is given an absent or empty proxy list, on any
\* path of get_jobs
C1_NoUnprotectedScrape ==
    (USE_PROXIES /\ ~PROXY_FALLBACK_ENABLED) =>
        \A p \in JobTasks : \A i \in 1..Len(scrape_calls[p]) :
            ~AbsentOrEmpty(scrape_calls[p][i].kwargs.proxies)

\* a first scrape with proxies failed with a text that mentions "proxy" while
\* fallback is disabled, and the request ended without another scrape
C1_Witness ==
    /\ USE_PROXIES /\ ~PROXY_FALLBACK_ENABLED
    /\ \E p \in JobTasks :
        /\ pc[p] = "done"
        /\ Len(scrape_calls[p]) = 1
        /\ scrape_calls[p][1].raised
        /\ MentionsProxy(scrape_calls[p][1].text)
        /\ ~response[p].success

\* C2: with USE_PROXIES true and fallback disabled, a get_proxy_list that
\* returns no proxies ends the request with success=false, jobs=[] and
\* error_type "proxy_unavailable"; one that raises ends it with success=false,
\* jobs=[] and error_type "proxy_fetch_failed" whose message embeds the raised
\* text; scrape_jobs is invoked zero times in both cases
C2_AbortWithoutScraping ==
    \A p \in JobTasks :
        (pc[p] = "done" /\ USE_PROXIES /\ ~PROXY_FALLBACK_ENABLED) =>
            /\ (~ret[p].raised /\ AbsentOrEmpty(ret[p].value)) =>
                  /\ response[p].success = FALSE
                  /\ response[p].jobs = <<>>
                  /\ response[p].error.error_type = "proxy_unavailable"
                  /\ scrape_calls[p] = <<>>
            /\ ret[p].raised =>
                  /\ response[p].success = FALSE
                  /\ response[p].jobs = <<>>
                  /\ response[p].error.error_type = "proxy_fetch_failed"
                  /\ Contains(ret[p].text, response[p].error.message)
                  /\ scrape_calls[p] = <<>>

\* get_proxy_list raised under disabled fallback and the request has ended
C2_Witness ==
    /\ USE_PROXIES /\ ~PROXY_FALLBACK_ENABLED
    /\ \E p \in JobTasks :
        /\ pc[p] = "done"
        /\ ret[p].raised
        /\ response[p].error.error_type = "proxy_fetch_failed"

\* the pool was empty under disabled fallback and the request has ended
C2_WitnessEmptyPool ==
    /\ USE_PROXIES /\ ~PROXY_FALLBACK_ENABLED
    /\ \E p \in JobTasks :
        /\ pc[p] = "done"
        /\ ~ret[p].raised /\ AbsentOrEmpty(ret[p].value)
        /\ response[p].error.error_type = "proxy_unavailable"

\* C3: while USE_PROXIES is false a request never calls get_proxy_list, never
\* starts a refresh, and gives every scrape_jobs invocation an absent proxy
\* list, whether the scrape succeeds or fails
C3_PoolNeverInvoked ==
    ~USE_PROXIES =>
        \A p \in JobTasks :
            /\ gpl_calls[p] = 0
            /\ refreshes[p] = 0
            /\ ~InGetProxyList(p)
            /\ \A i \in 1..Len(scrape_calls[p]) :
                  scrape_calls[p][i].kwargs.proxies = PyNone

\* a request ended in failure with USE_PROXIES false, after one scrape
C3_Witness ==
    /\ ~USE_PROXIES
    /\ \E p \in JobTasks :
        /\ pc[p] = "done"
        /\ Len(scrape_calls[p]) = 1
        /\ scrape_calls[p][1].raised
        /\ ~response[p].success

\* a request ended in success with USE_PROXIES false, after one scrape
C3_WitnessSuccess ==
    /\ ~USE_PROXIES
    /\ \E p \in JobTasks :
        /\ pc[p] = "done"
        /\ Len(scrape_calls[p]) = 1
        /\ response[p].success

\* C4: with USE_PROXIES true and fallback enabled, when get_proxy_list
\* returns no proxies or raises, the request invokes scrape_jobs exactly once,
\* with an absent proxy list, and if that scrape succeeds the response has
\* success=true and metadata.used_proxies = 0
C4_FallbackOnEmptyPool ==
    \A p \in JobTasks :
        (/\ pc[p] = "done"
         /\ USE_PROXIES /\ PROXY_FALLBACK_ENABLED
         /\ (ret[p].raised \/ AbsentOrEmpty(ret[p].value))) =>
            /\ Len(scrape_calls[p]) = 1
            /\ scrape_calls[p][1].kwargs.proxies = PyNone
            /\ ~scrape_calls[p][1].raised =>
                  /\ response[p].success = TRUE
                  /\ response[p].metadata.used_proxies = 0

\* the pool was empty, fallback enabled, and the single scrape succeeded
C4_Witness ==
    /\ USE_PROXIES /\ PROXY_FALLBACK_ENABLED
    /\ \E p \in JobTasks :
        /\ pc[p] = "done"
        /\ ~ret[p].raised /\ AbsentOrEmpty(ret[p].value)
        /\ Len(scrape_calls[p]) = 1
        /\ response[p].success

\* get_proxy_list raised, fallback enabled, and the single scrape failed
C4_WitnessRaised ==
    /\ USE_PROXIES /\ PROXY_FALLBACK_ENABLED
    /\ \E p \in JobTasks :
        /\ pc[p] = "done"
        /\ ret[p].raised
        /\ Len(scrape_calls[p]) = 1
        /\ ~response[p].success

\* C5: with USE_PROXIES true and a non-empty list returned by get_proxy_list,
\* the first scrape_jobs invocation of the request receives exactly that
\* list, and when it succeeds metadata.used_proxies is the list's length
C5_FirstScrapeUsesPool ==
    \A p \in JobTasks :
        (/\ USE_PROXIES
         /\ ~ret[p].raised /\ ~AbsentOrEmpty(ret[p].value)
         /\ Len(scrape_calls[p]) >= 1) =>
            /\ scrape_calls[p][1].kwargs.proxies = ret[p].value
            /\ (pc[p] = "done" /\ ~scrape_calls[p][1].raised) =>
                  /\ response[p].success = TRUE
                  /\ response[p].metadata.used_proxies = Len(ret[p].value.v)

\* a first scrape given a two-proxy pool succeeded
C5_Witness ==
    /\ USE_PROXIES
    /\ \E p \in JobTasks :
        /\ pc[p] = "done"
        /\ ~ret[p].raised /\ ~ret[p].value.isNone
        /\ Len(ret[p].value.v) = 2
        /\ Len(scrape_calls[p]) = 1
        /\ response[p].success


\* the two kwargs agree on every key but "proxies", which is absent in b
SameButNoProxies(a, b) ==
    /\ DOMAIN a = DOMAIN b
    /\ \A k \in DOMAIN a \ {"proxies"} : a[k] = b[k]
    /\ b.proxies = PyNone

\* the first attempt of task p had proxies, failed with a text mentioning
\* "proxy", and fallback is enabled
ProxyFailureWithFallback(p) ==
    /\ PROXY_FALLBACK_ENABLED
    /\ Len(scrape_calls[p]) >= 1
    /\ ~AbsentOrEmpty(scrape_calls[p][1].kwargs.proxies)
    /\ scrape_calls[p][1].raised
    /\ MentionsProxy(scrape_calls[p][1].text)

\* C6: when the first scrape attempt was given a non-empty proxy list,
\* fallback is enabled and the attempt fails with a text containing "proxy"
\* in any letter case, exactly one retry is made, with the same parameters
\* but an absent proxy list; when the retry succeeds the response has
\* success=true, metadata.fallback_used=true, metadata.used_proxies=0 and
\* the original error text in metadata.original_error
C6_OneRetryWithoutProxies ==
    \A p \in JobTasks :
        ProxyFailureWithFallback(p) =>
            /\ pc[p] \in {"retry", "done"}
            /\ pc[p] = "retry" => Len(scrape_calls[p]) = 1
            /\ pc[p] = "done" =>
                  /\ Len(scrape_calls[p]) = 2
                  /\ SameButNoProxies(scrape_calls[p][1].kwargs,
                                      scrape_calls[p][2].kwargs)
                  /\ ~scrape_calls[p][2].raised =>
                        /\ response[p].success = TRUE
                        /\ response[p].metadata.fallback_used = TRUE
                        /\ response[p].metadata.used_proxies = 0
                        /\ response[p].metadata.original_error
                              = scrape_calls[p][1].text

\* a retry after a proxy failure succeeded, for a request with a job_type
C6_Witness ==
    \E p \in JobTasks :
        /\ ProxyFailureWithFallback(p)
        /\ pc[p] = "done"
        /\ Len(scrape_calls[p]) = 2
        /\ "job_type" \in DOMAIN scrape_calls[p][2].kwargs
        /\ response[p].success

\* C7: within one request scrape_jobs is invoked at most twice and
\* get_proxy_list at most once, and once a scrape has been made the request
\* never enters get_proxy_list again
C7_BoundedAttempts ==
    \A p \in JobTasks :
        /\ Len(scrape_calls[p]) <= 2
        /\ gpl_calls[p] <= 1
        /\ Len(scrape_calls[p]) >= 1 => ~InGetProxyList(p)

\* a request ended after one pool acquisition and two scrapes
C7_Witness ==
    \E p \in JobTasks :
        /\ pc[p] = "done"
        /\ gpl_calls[p] = 1
        /\ Len(scrape_calls[p]) = 2

\* C8: when the last scrape attempt of a request fails, the response has
\* success=false, jobs=[] and error_type "scraping_failed"; for a failure
\* that was not retried the message embeds the error text and the details
\* record fallback_enabled and had_proxies; for a failed retry the details
\* record the original and the fallback error
C8_ScrapingFailed ==
    \A p \in JobTasks :
        LET n == Len(scrape_calls[p]) IN
        (pc[p] = "done" /\ n >= 1 /\ scrape_calls[p][n].raised) =>
            /\ response[p].success = FALSE
            /\ response[p].jobs = <<>>
            /\ response[p].error.error_type = "scraping_failed"
            /\ n = 1 =>
                  /\ Contains(scrape_calls[p][1].text,
                              response[p].error.message)
                  /\ response[p].error.details.fallback_enabled
                        = PROXY_FALLBACK_ENABLED
                  /\ response[p].error.details.had_proxies
                        = ~AbsentOrEmpty(scrape_calls[p][1].kwargs.proxies)
            /\ n = 2 =>
                  /\ response[p].error.details.original_error
                        = scrape_calls[p][1].text
                  /\ response[p].error.details.fallback_error
                        = scrape_calls[p][2].text

\* a first attempt with proxies failed under disabled fallback with a text
\* mentioning "proxy", and was not retried
C8_Witness ==
    \E p \in JobTasks :
        /\ pc[p] = "done"
        /\ ~PROXY_FALLBACK_ENABLED
        /\ Len(scrape_calls[p]) = 1
        /\ scrape_calls[p][1].raised
        /\ ~AbsentOrEmpty(scrape_calls[p][1].kwargs.proxies)
        /\ response[p].error.details.had_proxies = TRUE

\* a retry failed
C8_WitnessRetry ==
    \E p \in JobTasks :
        /\ pc[p] = "done"
        /\ Len(scrape_calls[p]) = 2
        /\ scrape_calls[p][2].raised
        /\ scrape_calls[p][2].text # scrape_calls[p][1].text

\* C9: no exception leaves get_jobs, and the response it returns satisfies:
\* success=true implies error is null; success=false implies jobs is empty
\* and error is present with a non-empty suggested_actions list
C9_AlwaysStructuredResponse ==
    \A p \in JobTasks :
        /\ pc[p] # "propagated"
        /\ pc[p] = "done" =>
              /\ response[p] # NoResponse
              /\ response[p].success \in BOOLEAN
              /\ response[p].success => response[p].error = PyNone
              /\ ~response[p].success =>
                    /\ response[p].jobs = <<>>
                    /\ response[p].error # PyNone
                    /\ Len(response[p].error.suggested_actions) > 0

\* the retry raised as well and the request still ended with a response
C9_Witness ==
    \E p \in JobTasks :
        /\ pc[p] = "done"
        /\ Len(scrape_calls[p]) = 2
        /\ scrape_calls[p][2].raised
        /\ ~response[p].success

\* number of proxies in a proxy list argument
SuppliedCount(prx) == IF AbsentOrEmpty(prx) THEN 0 ELSE Len(prx.v)

\* C10 as stated: every Success response carries metadata recording the
\* number of proxies supplied, whether fallback was used, and the echoed
\* search parameters
C10_Original ==
    \A p \in JobTasks :
        (pc[p] = "done" /\ USE_PROXIES /\ response[p].success) =>
            {"used_proxies", "fallback_used", "search_params"}
                \subseteq DOMAIN response[p].metadata

\* C10 amended: every Success response carries metadata recording the number
\* of proxies supplied to the scrape that succeeded and the echoed
\* search_term, location and results_wanted; fallback_used is present (and
\* true) exactly on a retry success, a first-attempt success has no such entry
C10_SuccessMetadata ==
    \A p \in JobTasks :
        LET n == Len(scrape_calls[p]) IN
        (pc[p] = "done" /\ response[p].success) =>
            /\ n \in {1, 2}
            /\ response[p].metadata.used_proxies
                  = SuppliedCount(scrape_calls[p][n].kwargs.proxies)
            /\ response[p].metadata.search_params
                  = [search_term |-> params[p].search_term,
                     location |-> params[p].location,
                     results_wanted |-> params[p].results_wanted]
            /\ ("fallback_used" \in DOMAIN response[p].metadata) <=> (n = 2)
            /\ n = 2 => response[p].metadata.fallback_used = TRUE

\* a first attempt without proxies succeeded after an empty pool under
\* fallback, and its metadata has no fallback_used entry
C10_Witness ==
    \E p \in JobTasks :
        /\ pc[p] = "done"
        /\ USE_PROXIES /\ PROXY_FALLBACK_ENABLED
        /\ ~ret[p].raised /\ AbsentOrEmpty(ret[p].value)
        /\ response[p].success
        /\ "fallback_used" \notin DOMAIN response[p].metadata

\* a retry succeeded and its metadata has fallback_used
C10_WitnessRetry ==
    \E p \in JobTasks :
        /\ pc[p] = "done"
        /\ Len(scrape_calls[p]) = 2
        /\ response[p].success
        /\ response[p].metadata.fallback_used = TRUE

\* ------------------------------------------------ properties of the pool
\* task p takes the lock and decides whether to refresh
AcquireStep(p) == pc[p] = "gpl_lock" /\ pc'[p] # "gpl_lock"

\* task p leaves get_proxy_list with a value
ReturnStep(p) == pc[p] = "gpl_return" /\ pc'[p] # "gpl_return"

\* the age of the pool as the call of task p measures it
Age(p) == current_time[p] - last_update

\* task p holds the lock on the cached path: it decided not to refresh
ServingCache(p) == pc[p] = "gpl_return" /\ refreshes[p] = 0

\* C11: a call with force_refresh false that finds a non-empty pool whose age
\* is within update_interval goes straight to its return: it starts no
\* refresh (neither the fetch nor the validation), the pool and last_update
\* stay as they are until it returns, and it returns exactly that list.
C11_CacheHit ==
    [][\A p \in DOMAIN pc :
        /\ (/\ AcquireStep(p)
            /\ ~force_refresh[p]
            /\ working_proxies # <<>>
            /\ Age(p) <= update_interval)
           => /\ pc'[p] = "gpl_return"
              /\ refreshes'[p] = 0
              /\ fresh_proxies'[p] = <<>>
              /\ UNCHANGED poolVars
        /\ ServingCache(p) => UNCHANGED poolVars
        /\ (ServingCache(p) /\ ReturnStep(p))
           => ret'[p] = Returned(PySome(working_proxies))]_vars

\* a call that was not forced has returned a non-empty list without a refresh
C11_Witness ==
    \E p \in HealthTasks \cap DOMAIN pc :
        /\ pc[p] = "health_proxies"
        /\ refreshes[p] = 0
        /\ Truthy(ret[p].value)
        /\ ret[p].value.v = working_proxies

\* the get_proxy_list call of task t has returned a value to its handler
HasReturned(t) ==
    \/ pc[t] \in {"jobs_proxies", "admin_proxies", "health_proxies"}
    \/ pc[t] = "done" /\ ~ret[t].raised

\* entries i and j of call_log are two calls without force_refresh, each made
\* within update_interval of the pool's timestamp, both returned, the first
\* before the second
TwoCachedReads(i, j) ==
    /\ i < j
    /\ ~call_log[i].force /\ ~call_log[j].force
    /\ call_log[i].within /\ call_log[j].within
    /\ HasReturned(call_log[i].task) /\ HasReturned(call_log[j].task)

\* C12 as stated: for every pool state, the empty pool included, two calls
\* with force_refresh false made within update_interval, with no forced
\* refresh between them, return the identical list.
C12_Original ==
    \A i, j \in 1..Len(call_log) :
        (/\ TwoCachedReads(i, j)
         /\ \A k \in (i+1)..(j-1) : ~call_log[k].force)
        => ret[call_log[i].task].value = ret[call_log[j].task].value

\* C12 amended: when the first of two such calls returns a non-empty list
\* and no call between them refreshes the pool, the second returns the
\* identical list.
C12_IdempotentRead ==
    \A i, j \in 1..Len(call_log) :
        (/\ TwoCachedReads(i, j)
         /\ Truthy(ret[call_log[i].task].value)
         /\ \A k \in (i+1)..(j-1) : refreshes[call_log[k].task] = 0)
        => ret[call_log[i].task].value = ret[call_log[j].task].value

\* two calls without force_refresh have returned the same non-empty list,
\* the second from the cache
C12_Witness ==
    \E i, j \in 1..Len(call_log) :
        /\ TwoCachedReads(i, j)
        /\ Truthy(ret[call_log[i].task].value)
        /\ refreshes[call_log[j].task] = 0
        /\ ret[call_log[i].task].value = ret[call_log[j].task].value

\* C13 as stated: the cached list is served without a refresh exactly when
\* force_refresh is false, the pool is non-empty and its age is strictly
\* less than update_interval; at an age equal to or above update_interval,
\* on an empty pool or under force_refresh the call refreshes.
C13_Original ==
    [][\A p \in DOMAIN pc :
        AcquireStep(p) =>
            /\ (pc'[p] = "gpl_return")
                  <=> (/\ ~force_refresh[p]
                       /\ working_proxies # <<>>
                       /\ Age(p) < update_interval)
            /\ pc'[p] \in {"gpl_return", "gpl_fetch"}]_vars

\* C13 amended: the cached list is served without a refresh exactly when
\* force_refresh is false, the pool is non-empty and its age is at most
\* update_interval; the call refreshes when the age is strictly greater
\* than update_interval, the pool is empty or force_refresh is true.
C13_RefreshDecision ==
    [][\A p \in DOMAIN pc :
        AcquireStep(p) =>
            IF /\ ~force_refresh[p]
               /\ working_proxies # <<>>
               /\ Age(p) <= update_interval
            THEN pc'[p] = "gpl_return" /\ refreshes'[p] = refreshes[p]
            ELSE pc'[p] = "gpl_fetch" /\ refreshes'[p] = refreshes[p] + 1]_vars

\* a call that was not forced serves a pool whose age is exactly
\* update_interval from the cache
C13_Witness ==
    \E p \in DOMAIN pc :
        /\ ServingCache(p)
        /\ lock = p
        /\ ~force_refresh[p]
        /\ working_proxies # <<>>
        /\ Age(p) = update_interval

\* the callers that are executing a refresh: fetching candidates, validating
\* them or writing the pool and its timestamp
Refreshing ==
    {p \in DOMAIN pc : pc[p] \in {"gpl_fetch", "gpl_validate", "gpl_stamp"}}

\* C14: whatever the number of concurrent callers of get_proxy_list, at most
\* one refresh is executing at any instant.
C14_OneRefreshAtATime == Cardinality(Refreshing) <= 1

\* one caller is refreshing while two others wait for the lock
C14_Witness ==
    /\ Cardinality(Refreshing) = 1
    /\ Cardinality({p \in DOMAIN pc : pc[p] = "gpl_lock"}) = 2

\* task p is inside the with self._lock block of get_proxy_list
HoldsLock(p) ==
    pc[p] \in {"gpl_fetch", "gpl_validate", "gpl_stamp", "gpl_return"}

\* C15: a call with force_refresh true that arrives while another caller's
\* refresh is in progress takes over the result of that refresh: it starts
\* no refresh of its own, so that the candidate source is invoked once in
\* total for the two overlapping calls.
C15_Original ==
    \A p \in DOMAIN pc :
        (/\ HoldsLock(p) /\ force_refresh[p]
         /\ arrived_during[p] # 0 /\ HasReturned(arrived_during[p]))
        => refreshes[p] = 0

\* C16: a call with force_refresh false that arrives while another caller's
\* refresh is in progress waits for it and returns its outcome without
\* starting a second refresh, whatever the outcome the refresh returned with
\* (a non-empty list, an empty validation result or no candidates).
C16_Original ==
    \A p \in DOMAIN pc :
        (/\ HoldsLock(p) /\ ~force_refresh[p]
         /\ arrived_during[p] # 0 /\ HasReturned(arrived_during[p]))
        => refreshes[p] = 0

\* task p receives the result of _fetch_free_proxies
FetchStep(p) == pc[p] = "gpl_fetch" /\ pc'[p] # "gpl_fetch"

\* what line 130 returns for the pool as it is
PoolOrNone ==
    IF working_proxies # <<>> THEN PySome(working_proxies) ELSE PyNone

\* task p is about to return from a refresh that fetched no candidates
AfterEmptyFetch(p) ==
    pc[p] = "gpl_return" /\ refreshes[p] > 0 /\ fresh_proxies[p] = <<>>

\* task p is about to return from a refresh that fetched candidates
AfterValidation(p) ==
    pc[p] = "gpl_return" /\ refreshes[p] > 0 /\ fresh_proxies[p] # <<>>

\* C17: when a refresh is triggered and the candidate source yields nothing,
\* working_proxies and last_update stay as they were when the call took the
\* lock, the validator is not invoked (the call goes from the fetch straight
\* to its return), and the call returns the previous list if it is non-empty
\* and None otherwise.
C17_EmptyFetchKeepsPool ==
    [][\A p \in DOMAIN pc :
        /\ pc[p] = "gpl_fetch" => UNCHANGED poolVars
        /\ (FetchStep(p) /\ fresh_proxies'[p] = <<>>)
           => pc'[p] = "gpl_return"
        /\ AfterEmptyFetch(p) => UNCHANGED poolVars
        /\ (AfterEmptyFetch(p) /\ ReturnStep(p))
           => ret'[p] = Returned(PoolOrNone)]_vars

\* a refresh fetched no candidates and the call is about to return the
\* non-empty list the pool held before
C17_Witness ==
    \E p \in DOMAIN pc :
        /\ AfterEmptyFetch(p)
        /\ working_proxies # <<>>
        /\ <<working_proxies, last_update>> \in held

ReportedPairWasHeld(r) ==
    \E pr \in held : Len(pr[1]) = r.working_proxies /\ pr[2] = r.last_update

\* C19: no reader observes a partially updated pool: the pair (working list,
\* last_update) a get_proxy_list caller finds when it returns, and the pair
\* (working_proxies count, last_update) a /health/proxies answer reports, is
\* a pair the pool held together after a completed refresh.
C19_Original ==
    /\ \A p \in DOMAIN pc :
          pc[p] = "gpl_return" => <<working_proxies, last_update>> \in held
    /\ \A p \in HealthTasks \cap DOMAIN pc :
          (pc[p] = "done" /\ response[p].status_code = 200)
          => ReportedPairWasHeld(response[p])

\* ------------------------------------- properties of _fetch_free_proxies
\* the lines of the text a source sent, each without surrounding whitespace
ContentLines(r) ==
    LET ls == Split(r.text) IN {Strip(ls[i]) : i \in 1..Len(ls)}

\* line l starts with a scheme
HasSchemePrefix(l) == Contains(<<":", "/", "/">>, l)

\* line l is a bare host:port
IsBareHostPort(l) == ~HasSchemePrefix(l) /\ Contains(<<":">>, l)

\* what C20 lets the list contain for the answer r: the http:// lines as
\* they are and the bare host:port lines behind http://; blank lines and the
\* lines with any other scheme contribute nothing
C20_Expected(r) ==
    {l \in ContentLines(r) : StartsWith(l, HTTP)}
        \cup {HTTP \o l : l \in {x \in ContentLines(r) : IsBareHostPort(x)}}

\* C20: for every content of the fetched list, the list _fetch_free_proxies
\* returns has no duplicates and no entry with a scheme other than http:
\* lines with http:// are kept as they are, lines with any other scheme are
\* discarded, bare host:port lines get http:// in front, blank lines are
\* skipped.
C20_Original ==
    \A p \in FetchTasks \cap DOMAIN pc :
        (/\ pc[p] = "fetched"
         /\ ~source_response.raised
         /\ source_response.status_code = 200)
        => LET out == fresh_proxies[p] IN
           /\ \A i, j \in 1..Len(out) : out[i] = out[j] => i = j
           /\ \A i \in 1..Len(out) :
                 /\ StartsWith(out[i], HTTP)
                 /\ ~HasSchemePrefix(SubSeq(out[i], Len(HTTP) + 1,
                                            Len(out[i])))
           /\ {out[i] : i \in 1..Len(out)} = C20_Expected(source_response)

\* ---------------------------------------------------------------------
\* C21
\* ---------------------------------------------------------------------

\* the request raised (network error, timeout) or was answered with a
\* status other than 200
SourceFailed(r) == r.raised \/ r.status_code # 200

\* C21: _fetch_free_proxies never raises: whatever the source did, the call
\* has a list to return, and a source whose request raised or was answered
\* with a non-200 status contributes no candidate, so that list is empty.
C21_FailedSourceYieldsNothing ==
    \A p \in FetchTasks :
        /\ pc[p] = "idle" => ListsOf(_fetch_free_proxies(source_response)) # {}
        /\ pc[p] = "fetched" /\ SourceFailed(source_response)
               => fresh_proxies[p] = <<>>

C21_Witness ==
    \E p \in FetchTasks :
        /\ pc[p] = "fetched"
        /\ ~source_response.raised
        /\ source_response.status_code = 404
        /\ source_response.text # <<>>
        /\ fresh_proxies[p] = <<>>

\* ---------------------------------------------------------------------
\* C22, C23
\* ---------------------------------------------------------------------

\* the places of the first 50 candidates on the list the source offers
FirstPlaces ==
    1..(IF Len(offered) < TestFirst THEN Len(offered) ELSE TestFirst)

\* the proxies at those places through which a probe succeeds
WorkingFirst == {offered[i] : i \in FirstPlaces} \cap reachable

\* the places call p has submitted, is probing or has probed
Probed(p) == Range(work_queue[p]) \cup in_flight[p] \cup Range(finished[p])

\* place i of the input has been probed and the loop has taken its result
Taken(p, i) == i \in Range(finished[p]) /\ i <= consumed[p]

\* C22: every proxy that _validate_proxies collects, returns and leaves in
\* the pool is one of the first 50 candidates of its input, its probe has
\* completed and reported success; no place beyond the 50th is ever
\* submitted or probed.
C22_OnlyValidatedFirstFifty ==
    /\ \A p \in ValidateTasks :
        /\ Probed(p) \subseteq FirstPlaces
        /\ \A k \in 1..Len(validated[p]) :
              \E i \in FirstPlaces :
                  /\ offered[i] = validated[p][k]
                  /\ Taken(p, i)
                  /\ offered[i] \in reachable
    /\ Range(working_proxies) \subseteq WorkingFirst

C22_Witness ==
    \E p \in ValidateTasks :
        /\ pc[p] = "gpl_stamp"
        /\ Len(offered) > TestFirst
        /\ \E i \in (TestFirst + 1)..Len(offered) : offered[i] \in reachable
        /\ WorkingFirst # {}
        /\ Range(working_proxies) = WorkingFirst

\* C23: the list _validate_proxies builds, and the pool it is assigned to,
\* never has more than 10 proxies; the list returned has exactly 10 when at
\* least 10 of the first 50 candidates work, and otherwise all the working
\* ones among the first 50.
C23_AtMostTarget ==
    /\ Len(working_proxies) <= EnoughWorking
    /\ \A p \in ValidateTasks :
        /\ Len(validated[p]) <= EnoughWorking
        /\ pc[p] = "gpl_stamp"
              => /\ working_proxies = validated[p]
                 /\ IF Cardinality(WorkingFirst) >= EnoughWorking
                    THEN Len(working_proxies) = EnoughWorking
                    ELSE /\ Range(working_proxies) = WorkingFirst
                         /\ Len(working_proxies) = Cardinality(WorkingFirst)

C23_Witness ==
    \E p \in ValidateTasks :
        /\ pc[p] = "gpl_stamp"
        /\ Cardinality(WorkingFirst) > EnoughWorking
        /\ Len(working_proxies) = EnoughWorking

\* ---------------------------------------------------------------------
\* C24
\* ---------------------------------------------------------------------

FAILED_TO_REFRESH ==
    <<"F","a","i","l","e","d"," ","t","o"," ","r","e","f","r","e","s","h",
      " ","p","r","o","x","i","e","s">>

\* C24: a POST /admin/refresh-proxies request calls get_proxy_list once, with
\* force_refresh set, and that call starts a refresh (the source is asked)
\* whatever the pool holds; the answer is 200 with the length of the list the
\* call returned (0 for None), or 500 with a detail containing "Failed to
\* refresh proxies" when the call raised.
C24_AdminRefreshForces ==
    \A p \in AdminTasks :
        /\ gpl_calls[p] <= 1
        /\ pc[p] \in {"gpl_enter", "gpl_lock"} => force_refresh[p]
        /\ pc[p] \in {"admin_proxies", "admin_proxies_raised", "done"}
              => gpl_calls[p] = 1 /\ refreshes[p] = 1
        /\ pc[p] = "done"
              => IF ret[p].raised
                 THEN /\ response[p].status_code = 500
                      /\ Contains(FAILED_TO_REFRESH, response[p].detail)
                 ELSE /\ response[p].status_code = 200
                      /\ response[p].working_proxies =
                            (IF ret[p].value.isNone THEN 0
                             ELSE Len(ret[p].value.v))

\* the forced call asks the source although the pool is filled and fresh
C24_Witness ==
    \E p \in AdminTasks :
        /\ pc[p] = "gpl_fetch"
        /\ working_proxies # <<>>
        /\ current_time[p] - last_update <= update_interval

\* ---------------------------------------------------------------------
\* C25
\* ---------------------------------------------------------------------

\* the three conditions of a retry, read off the first attempt of task p
RetryConditions(p) ==
    /\ ~AbsentOrEmpty(scrape_calls[p][1].kwargs.proxies)
    /\ PROXY_FALLBACK_ENABLED
    /\ MentionsProxy(scrape_calls[p][1].text)

\* C25: scrape_jobs is invoked a second time only after a first attempt that
\* failed, was given a non-empty proxy list, with fallback enabled and an
\* error text containing "proxy" in any letter case; a first attempt that
\* failed with one of the three false ends the request with a failure
\* response and no second scrape.
C25_RetryOnlyUnderAllThree ==
    \A p \in JobTasks :
        /\ Len(scrape_calls[p]) <= 2
        /\ (pc[p] = "retry" \/ Len(scrape_calls[p]) = 2)
              => scrape_calls[p][1].raised /\ RetryConditions(p)
        /\ (Len(scrape_calls[p]) >= 1 /\ scrape_calls[p][1].raised
              /\ ~RetryConditions(p))
              => /\ pc[p] = "done"
                 /\ Len(scrape_calls[p]) = 1
                 /\ response[p].success = FALSE
                 /\ response[p].jobs = <<>>

\* with proxies and fallback enabled, an attempt failed with a text that
\* does not contain "proxy" and was not retried
C25_Witness ==
    \E p \in JobTasks :
        /\ pc[p] = "done"
        /\ Len(scrape_calls[p]) = 1
        /\ scrape_calls[p][1].raised
        /\ ~AbsentOrEmpty(scrape_calls[p][1].kwargs.proxies)
        /\ PROXY_FALLBACK_ENABLED
        /\ ~MentionsProxy(scrape_calls[p][1].text)
        /\ response[p].success = FALSE

\* ---------------------------------------------------------------------
\* C26
\* ---------------------------------------------------------------------

\* call p has a network call in progress: the request to the source, or a
\* probe of one of its executor's threads
NetworkCall(p) == pc[p] = "gpl_fetch" \/ in_flight[p] # {}

\* C26 (as claimed): the lock of the pool is not held by a caller whose
\* candidate fetch or proxy probe is in progress, and no caller waits for the
\* lock while another caller's network call is in progress.
C26_Original ==
    \A p \in ValidateTasks :
        NetworkCall(p)
            => /\ lock # p
               /\ \A q \in ValidateTasks \ {p} : pc[q] # "gpl_lock"

\* ---------------------------------------------------------------------
\* C27
\* ---------------------------------------------------------------------

\* the endpoint answered, with the status the code accepts
AnsweredSuccessfully(a) == ~a.raised /\ a.status_code = 200

\* C27 (as claimed): _test_proxy returns, and it returns true exactly when at
\* least one of the probe endpoints answered successfully; in particular a
\* first endpoint that fails by an exception or a non-2xx status, followed by
\* a second that succeeds, gives true.
C27_Original ==
    \A p \in ProbeTasks :
        /\ pc[p] = "idle" => _test_proxy(answers) \in BOOLEAN
        /\ pc[p] = "probed"
              => (is_working.v
                    <=> \E i \in 1..Len(answers) :
                            AnsweredSuccessfully(answers[i]))

\* what the code does: true exactly when an endpoint answers 200 and no
\* request before it raised
C27_CodeBehaviour ==
    \A p \in ProbeTasks :
        /\ pc[p] = "idle" => _test_proxy(answers) \in BOOLEAN
        /\ pc[p] = "probed"
              => (is_working.v
                    <=> \E i \in 1..Len(answers) :
                            /\ answers[i] = RequestAnswered(200)
                            /\ \A j \in 1..(i - 1) : ~answers[j].raised)

\* ---------------------------------------------------------------------
\* C28
\* ---------------------------------------------------------------------

\* the index of x in the sequence s, 0 when x is not an element
IndexIn(s, x) ==
    IF \E k \in 1..Len(s) : s[k] = x
    THEN CHOOSE k \in 1..Len(s) : s[k] = x
    ELSE 0

\* the elements of the list s follow one another as they do in the list t
SameOrderAs(s, t) ==
    \A k \in 1..(Len(s) - 1) : IndexIn(t, s[k]) < IndexIn(t, s[k + 1])

\* the proxies probed by call p, in the order in which the probes completed
CompletionOrder(p) == [k \in 1..Len(finished[p]) |-> offered[finished[p][k]]]

\* C28 (as claimed): the working candidates are collected in the order in
\* which their probes complete: of two collected proxies, the one whose probe
\* completed first comes first in the list.
C28_Original ==
    \A p \in ValidateTasks : SameOrderAs(validated[p], CompletionOrder(p))

\* C28 (amended): the working candidates are collected in the order of the
\* input, whatever the order in which their probes complete: of two collected
\* proxies, the one that precedes the other in the input comes first in the
\* list, and so it does in the pool.
C28_InputOrder ==
    /\ \A p \in ValidateTasks : SameOrderAs(validated[p], offered)
    /\ SameOrderAs(working_proxies, offered)

\* the probe of the second candidate completed before the probe of the
\* first, and the list returned has the first candidate first
C28_Witness ==
    \E p \in ValidateTasks :
        /\ pc[p] = "gpl_stamp"
        /\ Len(finished[p]) >= 2
        /\ finished[p][1] = 2
        /\ finished[p][2] = 1
        /\ Len(working_proxies) >= 2
        /\ working_proxies[1] = offered[1]
        /\ working_proxies[2] = offered[2]

\* ---------------------------------------------------------------------
\* C29
\* ---------------------------------------------------------------------

\* call p has left its loop on the break: it has found enough proxies
FoundEnough(p) ==
    pc[p] = "val_exit" /\ Len(validated[p]) >= EnoughWorking

\* C29 (as claimed): once a validation pass has found 10 working proxies, no
\* probe that has not started yet is started: from then on the probes in
\* flight only complete.
C29_Original ==
    [][\A p \in ValidateTasks :
          FoundEnough(p) => in_flight'[p] \subseteq in_flight[p]]_vars

\* ---------------------------------------------------------------------
\* C30
\* ---------------------------------------------------------------------

\* the callers inside _validate_proxies
Validating == {p \in ValidateTasks : pc[p] \in {"val_loop", "val_exit"}}

\* the probes in flight, over all callers
ProbesInFlight ==
    UNION {{<<p, i>> : i \in in_flight[p]} : p \in ValidateTasks}

\* C30: at any instant at most one caller of get_proxy_list is inside a
\* validation pass, only that caller has probes in flight, and the number of
\* probes in flight over all callers is at most the size of the validator's
\* thread pool, which is at most 20.
C30_OnePassBoundedProbes ==
    /\ Cardinality(Validating) <= 1
    /\ \A p \in ValidateTasks : in_flight[p] # {} => p \in Validating
    /\ Cardinality(ProbesInFlight) <= max_workers
    /\ max_workers <= DefaultMaxWorkers

\* the pool is fully busy with items still queued, while the other caller
\* waits for the lock
C30_Witness ==
    \E p \in ValidateTasks :
        /\ p \in Validating
        /\ Cardinality(in_flight[p]) = max_workers
        /\ work_queue[p] # <<>>
        /\ \E q \in ValidateTasks \ {p} : pc[q] = "gpl_lock"

\* ---------------------------------------------------------------------
\* C31
\* ---------------------------------------------------------------------

\* scrape_jobs returned data in call c of a request and a record of it
\* failed the validation of Job
ValidationFailed(c) == c.kind = "data" /\ c.raised

\* C31 (as claimed): a success response has one Job per record of the batch
\* of the scrape it is built from, and a request in which a record failed
\* the validation of Job ends with success=false, an empty jobs list and
\* error_type "scraping_failed".
C31_Original ==
    \A p \in JobTasks :
        (pc[p] = "done" /\ scrape_calls[p] # <<>>)
        => LET last == scrape_calls[p][Len(scrape_calls[p])]
           IN /\ response[p].success
                    => /\ ~last.raised
                       /\ Len(response[p].jobs) = last.records
              /\ (\E i \in 1..Len(scrape_calls[p]) :
                      ValidationFailed(scrape_calls[p][i]))
                    => /\ ~response[p].success
                       /\ response[p].jobs = <<>>
                       /\ response[p].error.error_type = "scraping_failed"

\* what the code does: the same, unless the failed validation was followed
\* by a retry that succeeded
C31_CodeBehaviour ==
    \A p \in JobTasks :
        (pc[p] = "done" /\ scrape_calls[p] # <<>>)
        => LET last == scrape_calls[p][Len(scrape_calls[p])]
           IN /\ response[p].success
                    => /\ ~last.raised
                       /\ Len(response[p].jobs) = last.records
              /\ last.raised
                    => /\ ~response[p].success
                       /\ response[p].jobs = <<>>
                       /\ response[p].error.error_type = "scraping_failed"

\* ---------------------------------------------------------------------
\* C36
\* ---------------------------------------------------------------------

\* C36 (as claimed): scrape_jobs is invoked a second time in a request only
\* when its first invocation itself raised; an error raised after the first
\* invocation returned data never leads to a second scrape.
C36_Original ==
    \A p \in JobTasks :
        (pc[p] = "retry" \/ Len(scrape_calls[p]) >= 2)
        => scrape_calls[p][1].kind = "raise"

\* ---------------------------------------------------------------------
\* C32
\* ---------------------------------------------------------------------

\* task p is inside a call of get_proxy_list
InsideCall(p) ==
    pc[p] \in {"gpl_enter", "gpl_lock", "gpl_fetch", "gpl_validate",
               "val_loop", "val_exit", "gpl_stamp", "gpl_return"}

\* C32: under fair scheduling and a fair lock, every call of get_proxy_list
\* comes to its end, by a return or an exception, and every caller that
\* holds the lock gives it up: no caller waits forever and no validation
\* pass stalls.
C32_EveryCallEnds ==
    \A p \in ValidateTasks :
        /\ InsideCall(p) ~> ~InsideCall(p)
        /\ (lock = p) ~> (lock # p)

\* a call has ended and left the lock free for the caller waiting for it
C32_Witness ==
    \E p, q \in ValidateTasks :
        /\ p # q
        /\ ~InsideCall(p)
        /\ gpl_calls[p] = 1
        /\ lock = 0
        /\ pc[q] = "gpl_lock"

\* ---------------------------------------------------------------------
\* C33
\* ---------------------------------------------------------------------

\* C33 as stated: for every configured PROXY_UPDATE_INTERVAL, a call of
\* get_proxy_list that is not forced and finds a non-empty pool serves the
\* cache while the pool's age is within PROXY_UPDATE_INTERVAL and refreshes
\* once the age is beyond it.
C33_Original ==
    [][\A p \in DOMAIN pc :
        (/\ AcquireStep(p)
         /\ ~force_refresh[p]
         /\ working_proxies # <<>>)
        => IF Age(p) <= PROXY_UPDATE_INTERVAL
           THEN pc'[p] = "gpl_return"
           ELSE pc'[p] = "gpl_fetch"]_vars

\* what the code does: the window is update_interval, whatever is configured
C33_CodeBehaviour ==
    [][\A p \in DOMAIN pc :
        (/\ AcquireStep(p)
         /\ ~force_refresh[p]
         /\ working_proxies # <<>>)
        => IF Age(p) <= update_interval
           THEN pc'[p] = "gpl_return"
           ELSE pc'[p] = "gpl_fetch"]_vars

\* ---------------------------------------------------------------------
\* C37
\* ---------------------------------------------------------------------

\* C37 as stated: in every answer of GET /health/scraping with use_proxies
\* true and fallback_enabled false, scraping_available is true exactly when
\* working_proxies is greater than 0.
C37_Original ==
    \A p \in ScrapingTasks :
        (/\ pc[p] = "done"
         /\ response[p].status_code = 200
         /\ response[p].use_proxies
         /\ ~response[p].fallback_enabled)
        => (response[p].scraping_available <=> response[p].working_proxies > 0)

\* ---------------------------------------------------------------------
\* C34
\* ---------------------------------------------------------------------

\* C34 as stated: under every interleaving of calls of get_proxy_list,
\* forced or not, no step makes last_update smaller than it was.
C34_Original == [][last_update' >= last_update]_vars

\* ---------------------------------------------------------------------
\* C35
\* ---------------------------------------------------------------------

\* C35 as stated: a call of get_proxy_list that is about to return a
\* non-empty list returns one whose age, the call's current_time minus the
\* last_update of the pool, is at most update_interval; this includes the
\* call whose refresh was given no candidate by the source.
C35_Original ==
    \A p \in DOMAIN pc :
        (pc[p] = "gpl_return" /\ working_proxies # <<>>)
        => Age(p) <= update_interval

\* task p is about to return after a refresh to which the source gave no
\* candidate: the pool and last_update are as the refresh found them
RefreshGotNothing(p) ==
    /\ pc[p] = "gpl_return"
    /\ refreshes[p] > 0
    /\ fresh_proxies[p] = <<>>

\* C35 amended: a call of get_proxy_list that is about to return a non-empty
\* list returns one whose age, the call's current_time minus the last_update
\* of the pool, is at most update_interval, unless its own refresh was given
\* no candidate by the source: then it returns the previous list, whatever
\* its age.
C35_FreshUnlessRefreshGotNothing ==
    \A p \in DOMAIN pc :
        (/\ pc[p] = "gpl_return"
         /\ working_proxies # <<>>
         /\ ~RefreshGotNothing(p))
        => Age(p) <= update_interval

\* a call that was not forced returns a list older than update_interval
\* after a refresh that fetched nothing
C35_Witness ==
    \E p \in DOMAIN pc :
        /\ RefreshGotNothing(p)
        /\ working_proxies # <<>>
        /\ Age(p) > update_interval
        /\ ~force_refresh[p]

====
